---- MODULE Spec2Model ----
(***************************************************************************)
(* Model of the arbitrary-precision integer bi_t (include/bi.hpp,          *)
(* src/bi.cpp, src/h_.hpp) and of its digit store digit_vector             *)
(* (include/bi_digit_vector.hpp).                                          *)
(*                                                                         *)
(* A bi_t is the record [d, n, neg]: d is the allocated buffer digits_     *)
(* (Len(d) is capacity_), n is size_, neg is negative_.  C index i is      *)
(* d[i + 1].  A cell that was allocated and never written holds UNINIT.    *)
(*                                                                         *)
(* The digit width of the build (32 or 64 in bi_config.hpp) is scaled down *)
(* so that every digit value can be enumerated; it is the variable         *)
(* bi_dwidth, fixed by Init, and every kernel is written for any width.    *)
(***************************************************************************)
EXTENDS Integers, Sequences, FiniteSets, TLC

\* the build: digit width and the largest bi_bitcount_t
VARIABLES bi_dwidth, bitcount_max
\* the callers: the operands they hand over have fewer than operand_bits bits,
\* the strings at most string_len characters
VARIABLES operand_bits, string_len
\* the object x; the last call (op) with x before it (x0), its operand y (self
\* when y is x itself), its integer argument k, its string argument str, what it
\* returned (ret, ret2) and what it threw (err); outcome is what a call that
\* returns no integer object answered
VARIABLES x, op, x0, y, self, k, str, ret, ret2, err, outcome

vars ==
  <<bi_dwidth, bitcount_max, operand_bits, string_len, x, op, x0, y, self, k, str, ret, ret2,
    err, outcome>>

(***************************************************************************)
(* Bounds of the model.                                                    *)
(***************************************************************************)
\* digit width of the build the arithmetic specifications run
ArithWidth == 2
\* digit width of the build the string specifications run (a digit holds 10)
ParseWidth == 4
\* largest value of bi_bitcount_t (ULONG_MAX in the build)
BitCountMax == 4
\* the same, in the build that runs the operators on wide operands
WideBitCountMax == 6
\* the same, in the build that multiplies two digits by two
MulBitCountMax == 8
\* the wide builtin integer type has this many bits more than a digit
WideExtra == 2
\* operands handed to an operation have fewer than this many bits
OperandBits == 3
\* the same, for the operators run on wide operands
WideOperandBits == 5
\* shift counts and bit indices handed to an operation
MaxShift == 7
\* longest string handed to the parser
MaxStrLen == 2
\* the same, and the largest bi_bitcount_t, where the parser alone is exercised
WideStrLen == 3
ParseBitCountMax == 8

\* digit width and bit count of a build whose batches hold two decimal digits
BatchWidth == 7

BatchBitCountMax == 14

(***************************************************************************)
(* bi_config.hpp                                                           *)
(***************************************************************************)
bi_base == 2 ^ bi_dwidth

bi_dmax == bi_base - 1

bi_max_digits == bitcount_max \div bi_dwidth

Digit == 0 .. bi_dmax

\* content of a cell obtained from make_unique_for_overwrite and not written
UNINIT == -1

(***************************************************************************)
(* Arithmetic of the unsigned types digit and ddigit.                      *)
(***************************************************************************)
Wrap(v) == v % bi_base

WrapDD(v) == v % (bi_base * bi_base)

Shl(v, e) == Wrap(v * (2 ^ e))

\* the bits shifted out of a digit are dropped
shifted_out_dropped(v, e) == 0

Shr(v, e) == v \div (2 ^ e)

RECURSIVE BitOp(_, _, _, _)
BitOp(f, a, b, w) ==
  IF w = 0 THEN 0
  ELSE (IF f = "AND" THEN (a % 2) * (b % 2)
        ELSE IF f = "OR" THEN (IF (a % 2) + (b % 2) > 0 THEN 1 ELSE 0)
        ELSE ((a % 2) + (b % 2)) % 2)
       + 2 * BitOp(f, a \div 2, b \div 2, w - 1)

Not(a) == bi_dmax - a

(***************************************************************************)
(* digit_vector                                                            *)
(***************************************************************************)
Zero == [d |-> << >>, n |-> 0, neg |-> FALSE]

Cap(v) == Len(v.d)

At(v, i) == v.d[i + 1]

SetAt(v, i, val) == [v EXCEPT !.d[i + 1] = val]

Ok(v) == [v |-> v, err |-> "none"]

Thrown(v, e) == [v |-> v, err |-> e]

\* reserve: the exception it raises, if any; oom is the allocator failing
reserve_err(v, c, oom) ==
  IF c > bi_max_digits THEN "overflow_error"
  ELSE IF c > Cap(v) /\ oom THEN "bad_alloc"
  ELSE "none"

\* reserve when it does not throw: only the size_ first cells are copied
reserve(v, c) ==
  IF c > Cap(v)
  THEN [v EXCEPT !.d = [i \in 1 .. c |-> IF i <= v.n THEN v.d[i] ELSE UNINIT]]
  ELSE v

resize(v, new_size) == [reserve(v, new_size) EXCEPT !.n = new_size]

resize_unsafe(v, new_size) == [v EXCEPT !.n = new_size]

push_back(v, val) ==
  LET w == IF v.n >= Cap(v) THEN reserve(v, Cap(v) + 1) ELSE v
  IN  [w EXCEPT !.d[v.n + 1] = val, !.n = v.n + 1]

\* copy constructor: same capacity, size_ cells copied
copy(v) ==
  [d |-> [i \in 1 .. Cap(v) |-> IF i <= v.n THEN v.d[i] ELSE UNINIT],
   n |-> v.n, neg |-> v.neg]

\* digit_vector(digit_vector&&) and operator=(digit_vector&&): what other keeps
vec_moved(v) == [v EXCEPT !.d = << >>, !.n = 0]

\* the sign of other stays
moved_sign_kept(v) == vec_moved(v)

\* other after bi_t(bi_t&&) or operator=(bi_t&&): other.negative_ = false
moved_from(v) == [vec_moved(v) EXCEPT !.neg = FALSE]

RECURSIVE trim_size(_, _)
trim_size(d, new_size) ==
  IF new_size > 0 /\ d[new_size] = 0 THEN trim_size(d, new_size - 1)
  ELSE new_size

\* the sign is canonicalized, the leading zeros stay
trim_sign_only(v) == [v EXCEPT !.neg = IF v.n = 0 THEN FALSE ELSE v.neg]

trim_trailing_zeros(v) ==
  LET new_size == trim_size(v.d, v.n)
  IN  [v EXCEPT !.n = new_size, !.neg = IF new_size = 0 THEN FALSE ELSE v.neg]

(***************************************************************************)
(* The integer a bi_t denotes.                                             *)
(***************************************************************************)
RECURSIVE Mag(_, _)
Mag(d, n) == IF n = 0 THEN 0 ELSE d[n] * (bi_base ^ (n - 1)) + Mag(d, n - 1)

Abs(v) == Mag(v.d, v.n)

Val(v) == IF v.neg THEN 0 - Abs(v) ELSE Abs(v)

RECURSIVE DigitsOf(_)
DigitsOf(m) == IF m = 0 THEN << >> ELSE <<m % bi_base>> \o DigitsOf(m \div bi_base)

\* the bi_t a constructor builds for the integer i: capacity equals size
FromInt(i) ==
  LET ds == DigitsOf(IF i < 0 THEN 0 - i ELSE i)
  IN  [d |-> ds, n |-> Len(ds), neg |-> i < 0]

Operands == {FromInt(i) : i \in (1 - 2 ^ operand_bits) .. (2 ^ operand_bits - 1)}

(***************************************************************************)
(* Construction and assignment from a builtin integer.  A builtin type T   *)
(* is [bits, signed]; value is the integer it holds.                       *)
(***************************************************************************)
TMin(T) == IF T.signed THEN 0 - 2 ^ (T.bits - 1) ELSE 0

TMax(T) == IF T.signed THEN 2 ^ (T.bits - 1) - 1 ELSE 2 ^ T.bits - 1

\* static_cast<UnsignedT>(0) - static_cast<UnsignedT>(value), or value itself
UnsignedAbs(T, value) ==
  IF value >= 0 THEN value ELSE (0 - value) % (2 ^ T.bits)

RECURSIVE n_digits_of(_)
n_digits_of(temp) ==
  IF temp \div bi_base # 0 THEN 1 + n_digits_of(temp \div bi_base) ELSE 1

RECURSIVE store_digits(_, _, _)
store_digits(v, i, uvalue) ==
  IF uvalue # 0
  THEN store_digits(SetAt(v, i, Wrap(uvalue)), i + 1, uvalue \div bi_base)
  ELSE v

\* bi_t::bi_t(T): init_one_digit or init_atleast_one_digit on a new object
construct_integral(T, value, oom) ==
  IF value = 0 THEN Ok(Zero)
  ELSE LET uvalue == UnsignedAbs(T, value)
           nd == IF TMax(T) <= bi_dmax THEN 1 ELSE n_digits_of(uvalue)
           e == reserve_err(Zero, nd, oom)
       IN  IF e # "none" THEN Thrown(Zero, e)
           ELSE IF TMax(T) <= bi_dmax
           THEN Ok([SetAt(resize(Zero, 1), 0, Wrap(uvalue)) EXCEPT !.neg = value < 0])
           ELSE Ok(store_digits([resize(Zero, nd) EXCEPT !.neg = value < 0], 0, uvalue))

\* bi_t::operator=(T): negative_ is assigned before resize_ is called
assign_integral(v, T, value, oom) ==
  IF value = 0 THEN Ok([resize(v, 0) EXCEPT !.neg = FALSE])
  ELSE LET uvalue == UnsignedAbs(T, value)
           signed == [v EXCEPT !.neg = value < 0]
           nd == IF TMax(T) <= bi_dmax THEN 1 ELSE n_digits_of(uvalue)
           e == reserve_err(signed, nd, oom)
       IN  IF e # "none" THEN Thrown(signed, e)
           ELSE IF TMax(T) <= bi_dmax
           THEN Ok(SetAt(resize(signed, 1), 0, Wrap(uvalue)))
           ELSE Ok(store_digits(resize(signed, nd), 0, uvalue))

(***************************************************************************)
(* Increment and decrement                                                 *)
(***************************************************************************)
RECURSIVE increment_loop(_, _, _)
increment_loop(v, i, carry) ==
  IF carry /\ i < v.n
  THEN IF At(v, i) = bi_dmax
       THEN increment_loop(SetAt(v, i, 0), i + 1, TRUE)
       ELSE increment_loop(SetAt(v, i, At(v, i) + 1), i + 1, FALSE)
  ELSE [v |-> v, carry |-> carry]

increment_abs(v, oom) ==
  LET grow == v.n = 0 \/ At(v, v.n - 1) = bi_dmax
      e == IF grow THEN reserve_err(v, v.n + 1, oom) ELSE "none"
      w == IF grow THEN reserve(v, v.n + 1) ELSE v
  IN  IF e # "none" THEN Thrown(v, e)
      ELSE IF w.n = 0 THEN Ok(SetAt(resize(w, 1), 0, 1))
      ELSE LET l == increment_loop(w, 0, TRUE)
           IN  Ok(IF l.carry THEN push_back(l.v, 1) ELSE l.v)

\* the borrow stops at the digit it starts from
decrement_one_digit(v, i, borrow) ==
  SetAt(v, i, IF At(v, i) = 0 THEN bi_dmax ELSE At(v, i) - 1)

RECURSIVE decrement_loop(_, _, _)
decrement_loop(v, i, borrow) ==
  IF borrow /\ i < v.n
  THEN IF At(v, i) = 0
       THEN decrement_loop(SetAt(v, i, bi_dmax), i + 1, TRUE)
       ELSE decrement_loop(SetAt(v, i, At(v, i) - 1), i + 1, FALSE)
  ELSE v

decrement_abs(v, oom) ==
  IF v.n = 0
  THEN LET e == reserve_err(v, 1, oom)
       IN  IF e # "none" THEN Thrown(v, e)
           ELSE Ok([SetAt(resize(v, 1), 0, 1) EXCEPT !.neg = TRUE])
  ELSE Ok(trim_trailing_zeros(decrement_loop(v, 0, TRUE)))

\* operator++()
pre_increment(v, oom) ==
  IF ~v.neg THEN increment_abs(v, oom)
  ELSE LET r == decrement_abs(v, oom)
       IN  IF r.err # "none" THEN r
           ELSE Ok(IF r.v.n = 0 THEN [r.v EXCEPT !.neg = FALSE] ELSE r.v)

\* operator--()
pre_decrement(v, oom) ==
  IF ~v.neg THEN decrement_abs(v, oom) ELSE increment_abs(v, oom)

(***************************************************************************)
(* Addition and subtraction.  r is the destination as it stands; rx (ry)   *)
(* tells that the destination is the very object x (y), whose digits are   *)
(* then read from the destination's store.                                 *)
(***************************************************************************)
Sel(alias, cur, operand) == IF alias THEN cur ELSE operand

RECURSIVE sub_abs_gt_loop(_, _, _, _, _, _, _)
sub_abs_gt_loop(cur, xx, yy, rx, ry, i, borrow) ==
  LET X == Sel(rx, cur, xx)
      Y == Sel(ry, cur, yy)
      b == IF borrow THEN 1 ELSE 0
  IN  IF i < Y.n
      THEN LET temp == Wrap(At(X, i) - At(Y, i))
               r == Wrap(temp - b)
           IN  sub_abs_gt_loop(SetAt(cur, i, r), xx, yy, rx, ry, i + 1,
                               (r > temp) \/ (temp > At(X, i)))
      ELSE IF i < X.n
      THEN LET temp == Wrap(At(X, i) - b)
           IN  sub_abs_gt_loop(SetAt(cur, i, temp), xx, yy, rx, ry, i + 1,
                               temp > At(X, i))
      ELSE [trim_trailing_zeros(resize(cur, X.n)) EXCEPT !.neg = FALSE]

\* |x| - |y|, assuming |x| > |y|
sub_abs_gt(r, xx, yy, rx, ry, oom) ==
  LET e == reserve_err(r, Sel(rx, r, xx).n, oom)
  IN  IF e # "none" THEN Thrown(r, e)
      ELSE Ok(sub_abs_gt_loop(reserve(r, Sel(rx, r, xx).n), xx, yy, rx, ry, 0, FALSE))

RECURSIVE add_abs_loop(_, _, _, _, _, _, _)
add_abs_loop(cur, large, small, rl, rs, i, carry) ==
  LET L == Sel(rl, cur, large)
      S == Sel(rs, cur, small)
      c == IF carry THEN 1 ELSE 0
  IN  IF i < S.n
      THEN LET temp == Wrap(At(L, i) + c)
               r == Wrap(At(S, i) + temp)
           IN  add_abs_loop(SetAt(cur, i, r), large, small, rl, rs, i + 1,
                            (r < At(S, i)) \/ (temp < At(L, i)))
      ELSE IF i < L.n
      THEN LET temp == Wrap(At(L, i) + c)
           IN  add_abs_loop(SetAt(cur, i, temp), large, small, rl, rs, i + 1,
                            temp < c)
      ELSE LET w == SetAt(cur, i, c)
           IN  [trim_trailing_zeros(resize(w, Sel(rl, w, large).n + 1))
                   EXCEPT !.neg = FALSE]

\* r.reserve_(large.size()): no room for the carry
add_abs_no_room(r, xx, yy, rx, ry, oom) ==
  IF reserve_err(r, (IF xx.n >= yy.n THEN xx.n ELSE yy.n), oom) # "none"
  THEN Thrown(r, reserve_err(r, (IF xx.n >= yy.n THEN xx.n ELSE yy.n), oom))
  ELSE Ok(add_abs_loop(reserve(r, IF xx.n >= yy.n THEN xx.n ELSE yy.n),
                       IF xx.n >= yy.n THEN xx ELSE yy, IF xx.n >= yy.n THEN yy ELSE xx,
                       IF xx.n >= yy.n THEN rx ELSE ry, IF xx.n >= yy.n THEN ry ELSE rx,
                       0, FALSE))

\* |x| + |y|
add_abs(r, xx, yy, rx, ry, oom) ==
  LET xge == xx.n >= yy.n
      large == IF xge THEN xx ELSE yy
      small == IF xge THEN yy ELSE xx
      rl == IF xge THEN rx ELSE ry
      rs == IF xge THEN ry ELSE rx
      e == reserve_err(r, large.n + 1, oom)
  IN  IF e # "none" THEN Thrown(r, e)
      ELSE Ok(add_abs_loop(reserve(r, large.n + 1), large, small, rl, rs, 0, FALSE))

\* std::mismatch from the most significant digit: 0 when all digits agree
\* only the top digits are compared
mismatch_top_only(xx, yy, i) == i

RECURSIVE mismatch(_, _, _)
mismatch(xx, yy, i) ==
  IF i = 0 THEN 0
  ELSE IF xx.d[i] # yy.d[i] THEN i
  ELSE mismatch(xx, yy, i - 1)

SetNeg(res, b) ==
  IF res.err # "none" THEN res ELSE Ok([res.v EXCEPT !.neg = b])

\* |x| - |y|
sub_abs(r, xx, yy, rx, ry, oom) ==
  IF xx.n = yy.n
  THEN LET m == mismatch(xx, yy, xx.n)
       IN  IF m = 0 THEN Ok([resize(r, 0) EXCEPT !.neg = FALSE])
           ELSE IF yy.d[m] > xx.d[m]
           THEN SetNeg(sub_abs_gt(r, yy, xx, ry, rx, oom), TRUE)
           ELSE sub_abs_gt(r, xx, yy, rx, ry, oom)
  ELSE IF xx.n > yy.n THEN sub_abs_gt(r, xx, yy, rx, ry, oom)
  ELSE SetNeg(sub_abs_gt(r, yy, xx, ry, rx, oom), TRUE)

\* x + y
add(r, xx, yy, rx, ry, oom) ==
  IF xx.neg
  THEN IF yy.neg THEN SetNeg(add_abs(r, xx, yy, rx, ry, oom), TRUE)
       ELSE sub_abs(r, yy, xx, ry, rx, oom)
  ELSE IF yy.neg THEN sub_abs(r, xx, yy, rx, ry, oom)
       ELSE add_abs(r, xx, yy, rx, ry, oom)

\* x - y
sub(r, xx, yy, rx, ry, oom) ==
  IF xx.neg
  THEN IF yy.neg THEN sub_abs(r, yy, xx, ry, rx, oom)
       ELSE SetNeg(add_abs(r, xx, yy, rx, ry, oom), TRUE)
  ELSE IF yy.neg THEN add_abs(r, xx, yy, rx, ry, oom)
       ELSE sub_abs(r, xx, yy, rx, ry, oom)

(***************************************************************************)
(* Multiplication                                                          *)
(***************************************************************************)
\* the low digits of target are not cleared
fill_none(v, i, last) == v

\* the fill stops one digit early
RECURSIVE fill_one_short(_, _, _)
fill_one_short(v, i, last) ==
  IF i + 1 < last THEN fill_one_short(SetAt(v, i, 0), i + 1, last) ELSE v

RECURSIVE fill_zero(_, _, _)
fill_zero(v, i, last) ==
  IF i < last THEN fill_zero(SetAt(v, i, 0), i + 1, last) ELSE v

\* the multiplicand is read from the buffer the product is written to
RECURSIVE mul_inner_in_place(_, _, _, _, _, _)
mul_inner_in_place(target, a, bj, j, i, kk) ==
  IF i < a.n
  THEN LET t == WrapDD(At(target, i) * bj + At(target, i + j) + kk)
       IN  mul_inner_in_place(SetAt(target, i + j, Wrap(t)), a, bj, j, i + 1,
                              t \div bi_base)
  ELSE SetAt(target, j + a.n, kk)

\* the whole of t is carried into the next iteration
RECURSIVE mul_inner_carry_whole(_, _, _, _, _, _)
mul_inner_carry_whole(target, a, bj, j, i, kk) ==
  IF i < a.n
  THEN mul_inner_carry_whole(
         SetAt(target, i + j, Wrap(At(a, i) * bj + At(target, i + j) + kk)),
         a, bj, j, i + 1, WrapDD(At(a, i) * bj + At(target, i + j) + kk))
  ELSE SetAt(target, j + a.n, kk)

RECURSIVE mul_inner(_, _, _, _, _, _)
mul_inner(target, a, bj, j, i, kk) ==
  IF i < a.n
  THEN LET t == WrapDD(At(a, i) * bj + At(target, i + j) + kk)
       IN  mul_inner(SetAt(target, i + j, Wrap(t)), a, bj, j, i + 1,
                     t \div bi_base)
  ELSE SetAt(target, j + a.n, kk)

RECURSIVE mul_outer(_, _, _, _)
mul_outer(target, a, b, j) ==
  IF j < b.n THEN mul_outer(mul_inner(target, a, At(b, j), j, 0, 0), a, b, j + 1)
  ELSE target

\* result = a * b; overlap is &result == &a || &result == &b
mul(result, a, b, overlap, oom) ==
  IF a.n = 0 \/ b.n = 0 THEN Ok([resize(result, 0) EXCEPT !.neg = FALSE])
  ELSE LET target == IF overlap THEN Zero ELSE result
           e == reserve_err(target, a.n + b.n, oom)
       IN  IF e # "none" THEN Thrown(result, e)
           ELSE LET w == mul_outer(fill_zero(resize(target, a.n + b.n), 0, a.n),
                                   a, b, 0)
                IN  Ok([trim_trailing_zeros(w) EXCEPT !.neg = a.neg # b.neg])

RECURSIVE imul1add1_loop(_, _, _, _)
imul1add1_loop(v, i, m, kk) ==
  IF i < v.n
  THEN LET t == WrapDD(At(v, i) * m + kk)
       IN  imul1add1_loop(SetAt(v, i, Wrap(t)), i + 1, m, t \div bi_base)
  ELSE [v |-> v, k |-> kk]

\* this = this * m + kk; push_back may have to grow the store
imul1add1(v, m, kk, oom) ==
  LET l == imul1add1_loop(v, 0, m, kk)
      e == IF l.k # 0 /\ l.v.n >= Cap(l.v)
           THEN reserve_err(l.v, Cap(l.v) + 1, oom) ELSE "none"
  IN  IF e # "none" THEN Thrown(l.v, e)
      ELSE Ok(IF l.k # 0 THEN push_back(l.v, l.k) ELSE l.v)

(***************************************************************************)
(* Shifts.  alias is &result == &x.                                        *)
(***************************************************************************)
RECURSIVE left_shift_loop(_, _, _, _, _, _)
left_shift_loop(target, xx, bit_shift, i, j, carry) ==
  IF j < xx.n
  THEN LET current == At(xx, j)
       IN  left_shift_loop(
             SetAt(target, i, BitOp("OR", Shl(current, bit_shift), carry, bi_dwidth)),
             xx, bit_shift, i + 1, j + 1,
             IF bit_shift # 0 THEN Shr(current, bi_dwidth - bit_shift) ELSE 0)
  ELSE IF bit_shift # 0 THEN SetAt(target, i, carry) ELSE target

left_shift(result, xx, n_bits, alias, oom) ==
  IF xx.n = 0 THEN Ok([resize_unsafe(result, 0) EXCEPT !.neg = FALSE])
  ELSE IF n_bits = 0
  THEN IF alias THEN Ok(result)
       ELSE IF oom /\ Cap(xx) > 0 THEN Thrown(result, "bad_alloc") ELSE Ok(copy(xx))
  ELSE LET digit_shift == n_bits \div bi_dwidth
           bit_shift == n_bits % bi_dwidth
           size_result == xx.n + digit_shift + (IF bit_shift # 0 THEN 1 ELSE 0)
           target == IF alias THEN Zero ELSE result
           e == reserve_err(target, size_result, oom)
       IN  IF e # "none" THEN Thrown(result, e)
           ELSE LET w == left_shift_loop(
                           fill_zero(resize(target, size_result), 0, digit_shift),
                           xx, bit_shift, digit_shift, 0, 0)
                    moved == [d |-> w.d, n |-> w.n, neg |-> result.neg]
                    trimmed == trim_trailing_zeros(moved)
                IN  Ok([trimmed EXCEPT !.neg = Sel(alias, trimmed, xx).neg])

RECURSIVE right_shift_loop(_, _, _, _, _, _, _)
right_shift_loop(cur, xx, alias, size_x, bit_shift, i, kk) ==
  IF i < cur.n
  THEN LET X == Sel(alias, cur, xx)
           lo == Shr(At(X, kk - 1), bit_shift)
           w == SetAt(cur, i, lo)
           X2 == Sel(alias, w, xx)
           hi == IF kk < size_x
                 THEN BitOp("OR", At(w, i), Shl(At(X2, kk), bi_dwidth - bit_shift),
                            bi_dwidth)
                 ELSE lo
       IN  right_shift_loop(SetAt(w, i, hi), xx, alias, size_x, bit_shift,
                            i + 1, kk + 1)
  ELSE cur

RECURSIVE right_shift_copy(_, _, _, _, _)
right_shift_copy(cur, xx, alias, digit_shift, i) ==
  IF i < cur.n
  THEN right_shift_copy(SetAt(cur, i, At(Sel(alias, cur, xx), i + digit_shift)),
                        xx, alias, digit_shift, i + 1)
  ELSE cur

\* the digits below digit_shift are not looked at
low_digits_ignored(X, i, digit_shift) == FALSE

\* some digit below digit_shift is nonzero
RECURSIVE any_low_digit(_, _, _)
any_low_digit(X, i, digit_shift) ==
  IF i < digit_shift
  THEN IF At(X, i) # 0 THEN TRUE ELSE any_low_digit(X, i + 1, digit_shift)
  ELSE FALSE

right_shift(result, xx, n_bits, alias, oom) ==
  LET size_x == xx.n
      digit_shift == n_bits \div bi_dwidth
      bit_shift == n_bits % bi_dwidth
  IN  IF size_x <= digit_shift
      THEN IF xx.neg
           THEN LET e == reserve_err(result, 1, oom)
                IN  IF e # "none" THEN Thrown(result, e)
                    ELSE Ok([SetAt(resize(result, 1), 0, 1) EXCEPT !.neg = TRUE])
           ELSE Ok([resize_unsafe(result, 0) EXCEPT !.neg = FALSE])
      ELSE LET e == reserve_err(result, size_x - digit_shift, oom)
           IN  IF e # "none" THEN Thrown(result, e)
               ELSE LET sized == resize(result, size_x - digit_shift)
                        moved == IF bit_shift = 0
                                 THEN right_shift_copy(sized, xx, alias, digit_shift, 0)
                                 ELSE right_shift_loop(sized, xx, alias, size_x,
                                                       bit_shift, 0, digit_shift + 1)
                        trimmed == trim_trailing_zeros(moved)
                        res == [trimmed EXCEPT !.neg = Sel(alias, trimmed, xx).neg]
                        X == Sel(alias, res, xx)
                        mask == 2 ^ bit_shift - 1
                        low_bits == bit_shift > 0
                                    /\ BitOp("AND", At(X, digit_shift), mask, bi_dwidth) # 0
                        subtract_one == low_bits
                                        \/ (digit_shift > 0 /\ any_low_digit(X, 0, digit_shift))
                    IN  IF X.neg /\ subtract_one THEN pre_decrement(res, oom)
                        ELSE Ok(res)

(***************************************************************************)
(* Division                                                                *)
(***************************************************************************)
RECURSIVE div_algo_single_loop(_, _, _, _, _)
div_algo_single_loop(q, u, v0, j, rem) ==
  IF j >= 0
  THEN LET temp == WrapDD(rem * bi_base) + At(u, j)
       IN  div_algo_single_loop(SetAt(q, j, Wrap(temp \div v0)), u, v0, j - 1,
                                temp % v0)
  ELSE [q |-> q, rem |-> rem]

\* q and r already have their sizes
div_algo_single(q, r, u, v) ==
  LET l == div_algo_single_loop(q, u, At(v, 0), u.n - 1, 0)
  IN  [q |-> trim_trailing_zeros(l.q),
       r |-> trim_trailing_zeros(SetAt(r, 0, Wrap(l.rem))),
       add_back |-> FALSE, carry_cancels |-> TRUE, qhat_ok |-> TRUE,
       corrected |-> FALSE, in_capacity |-> u.n <= Cap(q) /\ 0 < Cap(r)]

\* the test of the loop of step (1): (v_msd << e) < b_half
normalize_test(v_msd, e) == Shl(v_msd, e) < bi_base \div 2

\* e such that b > 2^e * v_msd >= b / 2
RECURSIVE normalize_e(_, _)
normalize_e(v_msd, e) ==
  IF normalize_test(v_msd, e) THEN normalize_e(v_msd, e + 1) ELSE e

\* w[0 .. count-1] = u * 2^e, from the least significant digit
RECURSIVE shift_into(_, _, _, _, _)
shift_into(w, u, e, i, count) ==
  IF i < count
  THEN shift_into(
         SetAt(w, i, IF i = 0 THEN Shl(At(u, 0), e)
                     ELSE Wrap(Shl(At(u, i), e) + Shr(At(u, i - 1), bi_dwidth - e))),
         u, e, i + 1, count)
  ELSE w

\* q_hat is stored as it was estimated
q_hat_uncorrected(q_hat, r_hat, vp, vpp, u2, runs) ==
  [q_hat |-> q_hat, r_hat |-> r_hat, runs |-> runs]

\* the test of the correction loop of step (3)
q_hat_test(q_hat, r_hat, vpp, u2) ==
  q_hat = bi_base \/ WrapDD(q_hat * vpp) > WrapDD(bi_base * r_hat + u2)

\* the body of the correction loop: --q_hat; r_hat += vp
q_hat_body(q_hat, r_hat, vp, runs) ==
  [q_hat |-> q_hat - 1, r_hat |-> WrapDD(r_hat + vp), runs |-> runs + 1]

\* step (3): the correction loop on q_hat; it counts how often its body ran
RECURSIVE q_hat_loop(_, _, _, _, _, _)
q_hat_loop(q_hat, r_hat, vp, vpp, u2, runs) ==
  IF q_hat_test(q_hat, r_hat, vpp, u2)
  THEN IF q_hat_body(q_hat, r_hat, vp, runs).r_hat >= bi_base
       THEN q_hat_body(q_hat, r_hat, vp, runs)
       ELSE q_hat_loop(q_hat - 1, WrapDD(r_hat + vp), vp, vpp, u2, runs + 1)
  ELSE [q_hat |-> q_hat, r_hat |-> r_hat, runs |-> runs]

\* step (4): multiply and subtract, b is the signed borrow
RECURSIVE mul_sub_loop(_, _, _, _, _, _)
mul_sub_loop(u_norm, v_norm, q_hat, j, i, b) ==
  IF i < v_norm.n
  THEN LET product == WrapDD(q_hat * At(v_norm, i))
           stmp == At(u_norm, j + i) - Wrap(product) - b
       IN  mul_sub_loop(SetAt(u_norm, j + i, Wrap(stmp)), v_norm, q_hat, j, i + 1,
                        (product \div bi_base) - (stmp \div bi_base))
  ELSE [u |-> u_norm, b |-> b]

\* step (6) left out
add_back_skipped(u_norm, v_norm, j, i, c) == u_norm

\* the carry out of the top of v_norm is not added to u_norm[j + n]
RECURSIVE add_back_carry_lost(_, _, _, _, _)
add_back_carry_lost(u_norm, v_norm, j, i, c) ==
  IF i < v_norm.n
  THEN add_back_carry_lost(SetAt(u_norm, j + i, Wrap(At(u_norm, j + i) + At(v_norm, i) + c)),
                           v_norm, j, i + 1,
                           (At(u_norm, j + i) + At(v_norm, i) + c) \div bi_base)
  ELSE u_norm

\* step (6): add the divisor back
RECURSIVE add_back_loop(_, _, _, _, _)
add_back_loop(u_norm, v_norm, j, i, c) ==
  IF i < v_norm.n
  THEN LET tmp == At(u_norm, j + i) + At(v_norm, i) + c
       IN  add_back_loop(SetAt(u_norm, j + i, Wrap(tmp)), v_norm, j, i + 1,
                         tmp \div bi_base)
  ELSE SetAt(u_norm, j + v_norm.n, Wrap(At(u_norm, j + v_norm.n) + c))

\* what the run of Algorithm D went through: step (6) taken, the carry of step
\* (6) cancelling the borrow of step (4), q_hat a digit after at most two
\* corrections and the quotient digit or one more, a correction made, the
\* indices of q, u_norm and v_norm below the capacities
NoSteps ==
  [add_back |-> FALSE, carry_cancels |-> TRUE, qhat_ok |-> TRUE, corrected |-> FALSE,
   in_capacity |-> TRUE]

\* step (7): q and u_norm as the iteration j leaves them
D7_loop(q, u_norm, v_norm, j, g, est, is_neg) ==
  [q |-> q, u |-> u_norm,
   g |-> [add_back |-> g.add_back \/ is_neg,
          carry_cancels |-> g.carry_cancels /\ (is_neg => At(u_norm, j + v_norm.n) = 0),
          qhat_ok |-> g.qhat_ok /\ est.q_hat < bi_base /\ est.runs <= 2
                      /\ est.q_hat - est.digit \in {0, 1},
          corrected |-> g.corrected \/ est.runs > 0,
          in_capacity |-> g.in_capacity /\ j < Cap(q) /\ j + v_norm.n < Cap(u_norm)
                          /\ v_norm.n >= 2 /\ v_norm.n <= Cap(v_norm)]]

\* steps (5) and (6): q[j] = q_hat; if the subtraction went negative,
\* decrement q[j] and add the divisor back
D5_test_remainder(q, u_norm, v_norm, j, g, est, is_neg) ==
  IF is_neg
  THEN D7_loop(SetAt(q, j, Wrap(Wrap(est.q_hat) - 1)),
               add_back_loop(u_norm, v_norm, j, 0, 0), v_norm, j, g, est, is_neg)
  ELSE D7_loop(SetAt(q, j, Wrap(est.q_hat)), u_norm, v_norm, j, g, est, is_neg)

\* end of step (4): the borrow is taken from u_norm[j + n]
D4_borrow(q, v_norm, j, g, est, ms) ==
  D5_test_remainder(q,
                    SetAt(ms.u, j + v_norm.n, Wrap(At(ms.u, j + v_norm.n) - ms.b)),
                    v_norm, j, g, est, At(ms.u, j + v_norm.n) < ms.b)

\* the estimate of step (3) next to the quotient digit it estimates:
\* (u_norm[j + n] ... u_norm[j]) divided by v_norm
RECURSIVE DigitsFrom(_, _, _)
DigitsFrom(v, i, n) ==
  IF n = 0 THEN 0 ELSE At(v, i) + bi_base * DigitsFrom(v, i + 1, n - 1)

Estimate(est, u_norm, v_norm, j) ==
  [q_hat |-> est.q_hat, r_hat |-> est.r_hat, runs |-> est.runs,
   digit |-> DigitsFrom(u_norm, j, v_norm.n + 1) \div DigitsFrom(v_norm, 0, v_norm.n)]

D4_multiply_subtract(q, u_norm, v_norm, j, g, est) ==
  D4_borrow(q, v_norm, j, g, Estimate(est, u_norm, v_norm, j),
            mul_sub_loop(u_norm, v_norm, est.q_hat, j, 0, 0))

D3_calculate_q_hat(q, u_norm, v_norm, j, g, vp, tmp) ==
  D4_multiply_subtract(q, u_norm, v_norm, j, g,
                       q_hat_loop(tmp \div vp, tmp % vp, vp, At(v_norm, v_norm.n - 2),
                                  At(u_norm, j + v_norm.n - 2), 0))

RECURSIVE knuth_loop(_, _, _, _, _)

\* --j
knuth_next(v_norm, j, l) == knuth_loop(l.q, l.u, v_norm, j - 1, l.g)

\* steps (2) to (7): one quotient digit per j, from m - n down to 0
knuth_loop(q, u_norm, v_norm, j, g) ==
  IF j < 0 THEN [q |-> q, u |-> u_norm, g |-> g]
  ELSE knuth_next(
         v_norm, j,
         D3_calculate_q_hat(
           q, u_norm, v_norm, j, g, At(v_norm, v_norm.n - 1),
           WrapDD(At(u_norm, j + v_norm.n) * bi_base + At(u_norm, j + v_norm.n - 1))))

RECURSIVE unnormalize(_, _, _, _)
unnormalize(r, u_norm, e, i) ==
  IF i >= 0
  THEN unnormalize(
         SetAt(r, i, Wrap(Shl(At(u_norm, i + 1), bi_dwidth - e)
                          + Shr(At(u_norm, i), e))),
         u_norm, e, i - 1)
  ELSE r

\* step (8): the quotient is trimmed, the remainder is u_norm shifted back
D8_unnormalize(r, l, e, n) ==
  [q |-> trim_trailing_zeros(l.q),
   r |-> trim_trailing_zeros(
           unnormalize(SetAt(r, n - 1, Shr(At(l.u, n - 1), e)), l.u, e, n - 2)),
   add_back |-> l.g.add_back, carry_cancels |-> l.g.carry_cancels,
   qhat_ok |-> l.g.qhat_ok, corrected |-> l.g.corrected,
   in_capacity |-> l.g.in_capacity /\ n <= Cap(r) /\ n <= Cap(l.u)]

\* u_norm = u * 2^e with one more digit
u_normalized(u, e) ==
  SetAt(shift_into(resize(Zero, u.n + 1), u, e, 0, u.n), u.n,
        Shr(At(u, u.n - 1), bi_dwidth - e))

\* v_norm = v * 2^e
v_normalized(v, e) == shift_into(resize(Zero, v.n), v, e, 0, v.n)

\* step (1), then the loop on j and step (8)
D1_normalize(q, r, u, v, e) ==
  D8_unnormalize(
    r, knuth_loop(q, u_normalized(u, e), v_normalized(v, e), u.n - v.n, NoSteps), e, v.n)

\* Knuth Algorithm D; q and r already have their sizes, v has n > 1 digits
div_algo_knuth(q, r, u, v) == D1_normalize(q, r, u, v, normalize_e(At(v, v.n - 1), 0))

DivResult(q, r, e, algo, a) ==
  [q |-> q, r |-> r, err |-> e, algo |-> algo, add_back |-> a.add_back,
   carry_cancels |-> a.carry_cancels, qhat_ok |-> a.qhat_ok,
   corrected |-> a.corrected, in_capacity |-> a.in_capacity]

\* the signs: Q.negative_ = D.negative() ^ N.negative(), R.negative_ is
\* N.negative() unless R is 0
divide_signs(N, D, a) ==
  DivResult([a.q EXCEPT !.neg = (D.neg # N.neg)],
            [a.r EXCEPT !.neg = (a.r.n > 0 /\ N.neg)],
            "none", IF D.n = 1 THEN "single" ELSE "knuth", a)

\* Q = N / D, R = N % D into the new objects Q and R
divide(N, D, oom) ==
  IF D.n = 0 THEN DivResult(Zero, Zero, "division_by_zero", "none", NoSteps)
  ELSE IF (N.n = D.n /\ At(N, N.n - 1) < At(D, D.n - 1)) \/ N.n < D.n
  THEN IF oom /\ Cap(N) > 0 THEN DivResult(Zero, Zero, "bad_alloc", "none", NoSteps)
       ELSE DivResult(Zero, copy(N), "none", "less", NoSteps)
  ELSE IF oom THEN DivResult(Zero, Zero, "bad_alloc", "none", NoSteps)
  ELSE divide_signs(N, D,
                    IF D.n = 1
                    THEN div_algo_single(resize(Zero, N.n - D.n + 1), resize(Zero, D.n), N, D)
                    ELSE div_algo_knuth(resize(Zero, N.n - D.n + 1), resize(Zero, D.n), N, D))

(***************************************************************************)
(* Bitwise operations                                                      *)
(***************************************************************************)
RECURSIVE twos_complement_loop(_, _, _)
twos_complement_loop(v, i, carry) ==
  IF i < v.n
  THEN LET sum == Wrap(Not(At(v, i)) + carry)
       IN  twos_complement_loop(SetAt(v, i, sum), i + 1,
                                IF sum < carry THEN 1 ELSE 0)
  ELSE v

\* to_twos_complement (a new vector) and to_twos_complement_in_place
to_twos_complement(v) == twos_complement_loop(resize(copy(v), v.n), 0, 1)

RECURSIVE bitwise_loop(_, _, _, _, _)
bitwise_loop(f, cur, lhs_digits, rhs_digits, i) ==
  IF i < cur.n
  THEN LET lhs_digit == IF i < lhs_digits.n THEN At(lhs_digits, i)
                        ELSE IF lhs_digits.neg THEN bi_dmax ELSE 0
           rhs_digit == IF i < rhs_digits.n THEN At(rhs_digits, i)
                        ELSE IF rhs_digits.neg THEN bi_dmax ELSE 0
       IN  bitwise_loop(f, SetAt(cur, i, BitOp(f, lhs_digit, rhs_digit, bi_dwidth)),
                        lhs_digits, rhs_digits, i + 1)
  ELSE cur

\* lhs_digits bound to x.vec_ itself when x is not negative: with result the
\* object x, the digits read are those of the store as resize left it
bitwise_operation_by_reference(f, result, xx, yy, oom) ==
  LET max_size == (IF xx.n >= yy.n THEN xx.n ELSE yy.n)
                  + (IF f = "XOR" THEN 1 ELSE 0)
      e == reserve_err(result, max_size, oom)
      lhs_digits == IF xx.neg THEN to_twos_complement(xx)
                    ELSE IF result = xx /\ e = "none" THEN resize(result, max_size)
                    ELSE xx
      rhs_digits == IF yy.neg THEN to_twos_complement(yy) ELSE copy(yy)
      result_negative == IF f = "AND" THEN xx.neg /\ yy.neg
                         ELSE IF f = "OR" THEN xx.neg \/ yy.neg
                         ELSE xx.neg # yy.neg
  IN  IF e # "none" THEN Thrown(result, e)
      ELSE LET w == bitwise_loop(f, resize(result, max_size),
                                 [lhs_digits EXCEPT !.neg = xx.neg],
                                 [rhs_digits EXCEPT !.neg = yy.neg], 0)
               signed == [w EXCEPT !.neg = result_negative]
           IN  Ok(trim_trailing_zeros(
                    IF result_negative THEN twos_complement_loop(signed, 0, 1)
                    ELSE signed))

\* lhs_digits and rhs_digits are temporaries in both arms of the conditional
\* (a prvalue and an lvalue of class type yield a prvalue, so the operand's
\* vector is copied); result may therefore be the object x or y itself
bitwise_operation_impl(f, result, xx, yy, oom) ==
  LET max_size == (IF xx.n >= yy.n THEN xx.n ELSE yy.n)
                  + (IF f = "XOR" THEN 1 ELSE 0)
      lhs_digits == IF xx.neg THEN to_twos_complement(xx) ELSE copy(xx)
      rhs_digits == IF yy.neg THEN to_twos_complement(yy) ELSE copy(yy)
      result_negative == IF f = "AND" THEN xx.neg /\ yy.neg
                         ELSE IF f = "OR" THEN xx.neg \/ yy.neg
                         ELSE xx.neg # yy.neg
      e == IF oom /\ (Cap(xx) > 0 \/ Cap(yy) > 0) THEN "bad_alloc"
           ELSE reserve_err(result, max_size, oom)
  IN  IF e # "none" THEN Thrown(result, e)
      ELSE LET w == bitwise_loop(f, resize(result, max_size),
                                 [lhs_digits EXCEPT !.neg = xx.neg],
                                 [rhs_digits EXCEPT !.neg = yy.neg], 0)
               signed == [w EXCEPT !.neg = result_negative]
           IN  Ok(trim_trailing_zeros(
                    IF result_negative THEN twos_complement_loop(signed, 0, 1)
                    ELSE signed))

(***************************************************************************)
(* Bits, sign                                                              *)
(***************************************************************************)
RECURSIVE uints_bit_length(_)
uints_bit_length(number) ==
  IF number \div 2 # 0 THEN 1 + uints_bit_length(number \div 2) ELSE 1

bit_length(v) ==
  IF v.n = 0 THEN 0 ELSE (v.n - 1) * bi_dwidth + uints_bit_length(At(v, v.n - 1))

test_bit(v, i) ==
  IF v.n <= i \div bi_dwidth THEN FALSE
  ELSE Shr(At(v, i \div bi_dwidth), i % bi_dwidth) % 2 = 1

\* the digit is replaced by the bit, not or-ed with it
set_bit_replaces(v, i, oom) ==
  IF i \div bi_dwidth < v.n
  THEN Ok(SetAt(v, i \div bi_dwidth, Shl(1, i % bi_dwidth)))
  ELSE IF reserve_err(v, i \div bi_dwidth + 1, oom) # "none"
  THEN Thrown(v, reserve_err(v, i \div bi_dwidth + 1, oom))
  ELSE Ok(SetAt(fill_zero(resize(v, i \div bi_dwidth + 1), v.n, i \div bi_dwidth),
                i \div bi_dwidth, Shl(1, i % bi_dwidth)))

set_bit(v, i, oom) ==
  LET digit_idx == i \div bi_dwidth
      bit == Shl(1, i % bi_dwidth)
  IN  IF digit_idx < v.n
      THEN Ok(SetAt(v, digit_idx, BitOp("OR", At(v, digit_idx), bit, bi_dwidth)))
      ELSE LET e == reserve_err(v, digit_idx + 1, oom)
           IN  IF e # "none" THEN Thrown(v, e)
               ELSE Ok(SetAt(fill_zero(resize(v, digit_idx + 1), v.n, digit_idx),
                             digit_idx, bit))

negate(v) == IF v.n # 0 THEN [v EXCEPT !.neg = ~v.neg] ELSE v

\* operator-() const
unary_minus(v) == negate(copy(v))

One == [d |-> <<1>>, n |-> 1, neg |-> FALSE]

\* operator~() const: -(*this) - 1
complement(v, oom) == sub(Zero, unary_minus(v), One, FALSE, FALSE, oom)

(***************************************************************************)
(* The C library.  An integer is [d, n]: d the digits array, of n_alloc    *)
(* cells, and n the field n_digits, whose sign is the sign of the integer  *)
(* and whose absolute value is the number of digits in use.  Cells that    *)
(* malloc or realloc hand out hold UNINIT.  The library stops the program  *)
(* when more than BI_MAX_DIGITS (INT_MAX here) digits are asked for, which *)
(* no operand below comes near.                                            *)
(***************************************************************************)
ABS(n) == IF n < 0 THEN 0 - n ELSE n

\* bi_prep: the integer 0 with nothing allocated
bi_prep == [d |-> << >>, n |-> 0]

bi_realloc(ptr, size) ==
  [ptr EXCEPT !.d = [i \in 1 .. size |-> IF i <= Len(ptr.d) THEN ptr.d[i] ELSE UNINIT]]

BI_REALLOC_IF_NECESSARY(a, size) == IF Len(a.d) < size THEN bi_realloc(a, size) ELSE a

\* to = from
bi_set(to, from) ==
  [d |-> [i \in 1 .. Len(BI_REALLOC_IF_NECESSARY(to, ABS(from.n)).d) |->
            IF i <= ABS(from.n) THEN from.d[i]
            ELSE BI_REALLOC_IF_NECESSARY(to, ABS(from.n)).d[i]],
   n |-> from.n]

BI_NORMALIZE(b, asize) ==
  [b EXCEPT !.n = IF b.n < 0 THEN 0 - trim_size(b.d, asize) ELSE trim_size(b.d, asize)]

BI_NORMALIZE_NEG(b, asize) == [b EXCEPT !.n = 0 - trim_size(b.d, asize)]

BI_NORMALIZE_NONNEG(b, asize) == [b EXCEPT !.n = trim_size(b.d, asize)]

RECURSIVE bi_cmp_loop(_, _, _)
bi_cmp_loop(a, b, i) ==
  IF i < 0 THEN 0
  ELSE IF At(a, i) # At(b, i)
  THEN (IF a.n < 0 THEN (IF At(a, i) > At(b, i) THEN 0 - 1 ELSE 1)
        ELSE (IF At(a, i) > At(b, i) THEN 1 ELSE 0 - 1))
  ELSE bi_cmp_loop(a, b, i - 1)

bi_cmp(a, b) ==
  IF a.n > b.n THEN 1
  ELSE IF a.n < b.n THEN 0 - 1
  ELSE bi_cmp_loop(a, b, ABS(a.n) - 1)

RECURSIVE bit_length_digit(_)
bit_length_digit(number) ==
  IF number \div 2 # 0 THEN 1 + bit_length_digit(number \div 2) ELSE 1

bi_bit_length(a) == (ABS(a.n) - 1) * bi_dwidth + bit_length_digit(At(a, ABS(a.n) - 1))

bi_get_bit(a, i) ==
  IF ABS(a.n) <= i \div bi_dwidth THEN FALSE
  ELSE Shr(At(a, i \div bi_dwidth), i % bi_dwidth) % 2 = 1

\* else branch of bi_set_bit: the array grows to digit_idx + 1 cells
bi_set_bit_grow(a, r, digit_idx, i) ==
  [d |-> [c \in 1 .. digit_idx + 1 |->
            IF c = digit_idx + 1 THEN Shl(1, i % bi_dwidth)
            ELSE IF c > ABS(a.n) THEN 0 ELSE r.d[c]],
   n |-> IF a.n < 0 THEN 0 - (digit_idx + 1) ELSE digit_idx + 1]

bi_set_bit(a, i) ==
  IF i \div bi_dwidth < ABS(a.n)
  THEN SetAt(a, i \div bi_dwidth,
             BitOp("OR", At(a, i \div bi_dwidth), Shl(1, i % bi_dwidth), bi_dwidth))
  ELSE bi_set_bit_grow(a, bi_realloc(a, i \div bi_dwidth + 1), i \div bi_dwidth, i)

\* ADD and SUB write digit i of c after reading digit i of a and of b and
\* read no lower digit later: c may be a or b, read here as they were
RECURSIVE ADD_loop(_, _, _, _, _)
ADD_loop(c, a, b, i, carry) ==
  IF i < ABS(b.n)
  THEN ADD_loop(SetAt(c, i, Wrap(At(b, i) + Wrap(At(a, i) + carry))), a, b, i + 1,
                IF Wrap(At(b, i) + Wrap(At(a, i) + carry)) < At(b, i)
                   \/ Wrap(At(a, i) + carry) < At(a, i) THEN 1 ELSE 0)
  ELSE IF i < ABS(a.n)
  THEN ADD_loop(SetAt(c, i, Wrap(At(a, i) + carry)), a, b, i + 1,
                IF Wrap(At(a, i) + carry) < carry THEN 1 ELSE 0)
  ELSE IF carry = 1 THEN [SetAt(c, i, carry) EXCEPT !.n = ABS(a.n) + 1]
  ELSE BI_NORMALIZE_NONNEG(c, ABS(a.n))

\* c = |a| + |b|, a having at least as many digits as b
ADD(c, a, b) == ADD_loop(BI_REALLOC_IF_NECESSARY(c, ABS(a.n) + 1), a, b, 0, 0)

RECURSIVE SUB_loop(_, _, _, _, _)
SUB_loop(c, a, b, i, borrow) ==
  IF i < ABS(b.n)
  THEN SUB_loop(SetAt(c, i, Wrap(Wrap(At(a, i) - At(b, i)) - borrow)), a, b, i + 1,
                IF Wrap(Wrap(At(a, i) - At(b, i)) - borrow) > Wrap(At(a, i) - At(b, i))
                   \/ Wrap(At(a, i) - At(b, i)) > At(a, i) THEN 1 ELSE 0)
  ELSE IF i < ABS(a.n)
  THEN SUB_loop(SetAt(c, i, Wrap(At(a, i) - borrow)), a, b, i + 1,
                IF Wrap(At(a, i) - borrow) > At(a, i) THEN 1 ELSE 0)
  ELSE c

\* c = |a| - |b| digit by digit, |a| > |b|; n_digits is left to the caller
SUB(c, a, b) == SUB_loop(BI_REALLOC_IF_NECESSARY(c, ABS(a.n)), a, b, 0, 0)

bi_add_abs(to, a, b) == IF ABS(a.n) >= ABS(b.n) THEN ADD(to, a, b) ELSE ADD(to, b, a)

\* the highest index at which a and b differ, -1 when there is none
RECURSIVE first_difference(_, _, _)
first_difference(a, b, j) ==
  IF j >= 0 /\ At(a, j) = At(b, j) THEN first_difference(a, b, j - 1) ELSE j

bi_sub_abs_same_size(to, a, b, j) ==
  IF j < 0 THEN [to EXCEPT !.n = 0]
  ELSE IF At(a, j) < At(b, j) THEN BI_NORMALIZE_NEG(SUB(to, b, a), ABS(b.n))
  ELSE BI_NORMALIZE_NONNEG(SUB(to, a, b), ABS(a.n))

bi_sub_abs(to, a, b) ==
  IF ABS(a.n) = ABS(b.n)
  THEN bi_sub_abs_same_size(to, a, b, first_difference(a, b, ABS(a.n) - 1))
  ELSE IF ABS(a.n) > ABS(b.n) THEN BI_NORMALIZE_NONNEG(SUB(to, a, b), ABS(a.n))
  ELSE BI_NORMALIZE_NEG(SUB(to, b, a), ABS(b.n))

negated(r) == [r EXCEPT !.n = 0 - r.n]

bi_sub(r, a, b) ==
  IF a.n < 0
  THEN (IF b.n < 0 THEN bi_sub_abs(r, b, a) ELSE negated(bi_add_abs(r, a, b)))
  ELSE (IF b.n < 0 THEN bi_add_abs(r, a, b) ELSE bi_sub_abs(r, a, b))

\* the digits of a shifted into p from cell i on, sum carrying the bits over;
\* i ends at result_size - 1 when there are bits to shift
RECURSIVE bi_lshift_loop(_, _, _, _, _, _)
bi_lshift_loop(p, a, i, j, sum, shift_bits) ==
  IF j < ABS(a.n)
  THEN bi_lshift_loop(
         [p EXCEPT ![i + 1] = Wrap(BitOp("OR", sum, At(a, j) * 2 ^ shift_bits, 2 * bi_dwidth))],
         a, i + 1, j + 1,
         BitOp("OR", sum, At(a, j) * 2 ^ shift_bits, 2 * bi_dwidth) \div bi_base, shift_bits)
  ELSE IF shift_bits # 0 THEN [p EXCEPT ![i + 1] = Wrap(sum)]
  ELSE p

\* p of result_size cells: a new array when result is a, else the array of
\* result, grown when it is too short; its cells below shift_digits are cleared
bi_lshift_array(result, a, same, result_size, shift_digits) ==
  [c \in 1 .. (IF same \/ result_size > Len(result.d) THEN result_size ELSE Len(result.d)) |->
     IF c <= shift_digits THEN 0
     ELSE IF same \/ c > Len(result.d) THEN UNINIT ELSE result.d[c]]

bi_lshift_size(a, shift) ==
  ABS(a.n) + shift \div bi_dwidth + (IF shift % bi_dwidth # 0 THEN 1 ELSE 0)

\* same: result and a are one object (result->digits == a->digits)
bi_lshift(result, a, shift, same) ==
  IF a.n = 0 THEN [result EXCEPT !.n = 0]
  ELSE IF shift = 0 THEN (IF same THEN result ELSE bi_set(result, a))
  ELSE BI_NORMALIZE(
         [d |-> bi_lshift_loop(
                  bi_lshift_array(result, a, same, bi_lshift_size(a, shift),
                                  shift \div bi_dwidth),
                  a, shift \div bi_dwidth, 0, 0, shift % bi_dwidth),
          n |-> result.n],
         bi_lshift_size(a, shift))

\* the quotient and the remainder of bi_divide_qr
QR(Q, R) == [Q |-> Q, R |-> R]

RECURSIVE bi_divide_qr_loop(_, _, _, _, _)
\* (3)(III): R is compared with D
bi_divide_qr_compare(Q, R, N, D, i) ==
  IF bi_cmp(R, D) >= 0 THEN bi_divide_qr_loop(bi_set_bit(Q, i), bi_sub(R, R, D), N, D, i - 1)
  ELSE bi_divide_qr_loop(Q, R, N, D, i - 1)

\* (3)(II): bit i of N goes into bit 0 of R
bi_divide_qr_bit(Q, R, N, D, i) ==
  bi_divide_qr_compare(Q, IF bi_get_bit(N, i) THEN bi_set_bit(R, 0) ELSE R, N, D, i)

\* (3): i from bi_bit_length(N) - 1 down to 0
bi_divide_qr_loop(Q, R, N, D, i) ==
  IF i < 0 THEN QR(Q, R) ELSE bi_divide_qr_bit(Q, bi_lshift(R, R, 1, TRUE), N, D, i)

bi_divide_qr_signs(qr, N, D) ==
  QR(IF (N.n < 0) # (D.n < 0) THEN negated(qr.Q) ELSE qr.Q,
     IF N.n < 0 /\ qr.R.n # 0 THEN negated(qr.R) ELSE qr.R)

\* D is not 0
bi_divide_qr(Q, R, N, D) ==
  IF ABS(N.n) < ABS(D.n)
     \/ (ABS(N.n) = ABS(D.n) /\ At(N, ABS(N.n) - 1) < At(D, ABS(D.n) - 1))
  THEN QR([Q EXCEPT !.n = 0], bi_set(R, N))
  ELSE bi_divide_qr_signs(
         bi_divide_qr_loop(
           [BI_REALLOC_IF_NECESSARY(Q, ABS(N.n) - ABS(D.n) + 1) EXCEPT !.n = 0],
           [BI_REALLOC_IF_NECESSARY(R, ABS(D.n)) EXCEPT !.n = 0],
           N, D, bi_bit_length(N) - 1),
         N, D)

\* (rhi, rlo) = yy * xx + a + b, the carries of the two additions going to rhi
MULT_2DIGITS_x_ADD_2DIGITS(yy, xx, a, b) ==
  LET rlo1 == Wrap(Wrap(yy * xx) + a)
      rhi1 == Wrap((yy * xx) \div bi_base + (IF rlo1 < a THEN 1 ELSE 0))
      rlo2 == Wrap(rlo1 + b)
  IN  [rlo |-> rlo2, rhi |-> Wrap(rhi1 + (IF rlo2 < b THEN 1 ELSE 0))]

\* p: a cleared array of n_c_digits cells from calloc when c is a or b or has
\* fewer cells, else the array of c with its first n_c_digits cells cleared
bi_mul_array(c, same, n_c_digits) ==
  IF same \/ Len(c.d) < n_c_digits THEN [i \in 1 .. n_c_digits |-> 0]
  ELSE [i \in 1 .. Len(c.d) |-> IF i <= n_c_digits THEN 0 ELSE c.d[i]]

RECURSIVE bi_mul_inner(_, _, _, _, _, _)
\* p[k] = y; carry = x
bi_mul_store(p, a, b, i, j, yx) ==
  bi_mul_inner([p EXCEPT ![i + j + 1] = yx.rlo], a, b, i, j + 1, yx.rhi)

\* for (j = 0; j < m; j++), then p[i + m] = x
bi_mul_inner(p, a, b, i, j, carry) ==
  IF j < ABS(a.n)
  THEN bi_mul_store(p, a, b, i, j,
                    MULT_2DIGITS_x_ADD_2DIGITS(At(a, j), At(b, i), p[i + j + 1], carry))
  ELSE [p EXCEPT ![i + ABS(a.n) + 1] = carry]

RECURSIVE bi_mul_outer(_, _, _, _)
bi_mul_outer(p, a, b, i) ==
  IF i < ABS(b.n) THEN bi_mul_outer(bi_mul_inner(p, a, b, i, 0, 0), a, b, i + 1) ELSE p

\* a cell of an array as a read finds it: what was written there, or, in a
\* cell never written or beyond the array, whatever the memory holds (stale)
Read(digits, i, stale) ==
  IF i < Len(digits) /\ digits[i + 1] # UNINIT THEN digits[i + 1] ELSE stale

\* while (n_c_digits > 1 && c->digits[n_c_digits - 1] == 0) --n_c_digits
RECURSIVE bi_mul_normalize(_, _, _)
bi_mul_normalize(digits, n_c_digits, stale) ==
  IF n_c_digits > 1 /\ Read(digits, n_c_digits - 1, stale) = 0
  THEN bi_mul_normalize(digits, n_c_digits - 1, stale)
  ELSE n_c_digits

\* the product is in p; c->digits is still the array of the operand when c is
\* a or b (same), and it is c->digits that the normalization reads; p, with
\* n_alloc = n_c_digits, then takes the place of that array
bi_mul_normalized(c, a, b, same, stale, p) ==
  LET n_c_digits == bi_mul_normalize(IF same THEN c.d ELSE p, ABS(a.n) + ABS(b.n), stale)
  IN  [d |-> IF same THEN SubSeq(p, 1, n_c_digits) ELSE p,
       n |-> IF (a.n < 0) # (b.n < 0) THEN 0 - n_c_digits ELSE n_c_digits]

\* same: c is a or b (c->digits == a->digits || c->digits == b->digits)
bi_mul(c, a, b, same, stale) ==
  IF a.n = 0 \/ b.n = 0 THEN [c EXCEPT !.n = 0]
  ELSE bi_mul_normalized(c, a, b, same, stale,
                         bi_mul_outer(bi_mul_array(c, same, ABS(a.n) + ABS(b.n)), a, b, 0))

(***************************************************************************)
(* Comparison with a builtin integer: cmp(const bi_t&, T)                  *)
(***************************************************************************)
\* while (temp_b != 0) { temp_b >>= bi_dwidth; n_b_digits++; }
RECURSIVE count_digits(_)
count_digits(temp_b) ==
  IF temp_b # 0 THEN 1 + count_digits(temp_b \div bi_base) ELSE 0

n_b_digits(T, unsigned_b) ==
  IF 2 ^ T.bits - 1 <= bi_dmax THEN (IF unsigned_b # 0 THEN 1 ELSE 0)
  ELSE count_digits(unsigned_b)

\* the digits of b are not looked at below the top one
cmp_top_digit(a, unsigned_b, i) ==
  IF i = 0 THEN 0
  ELSE IF At(a, i - 1) < Wrap(unsigned_b \div 2 ^ (bi_dwidth * (i - 1)))
  THEN (IF a.neg THEN 1 ELSE 0 - 1)
  ELSE IF At(a, i - 1) > Wrap(unsigned_b \div 2 ^ (bi_dwidth * (i - 1)))
  THEN (IF a.neg THEN 0 - 1 ELSE 1)
  ELSE 0

\* the digits of a and b from the top one down
RECURSIVE cmp_digits(_, _, _)
cmp_digits(a, unsigned_b, i) ==
  IF i = 0 THEN 0
  ELSE IF At(a, i - 1) < Wrap(unsigned_b \div 2 ^ (bi_dwidth * (i - 1)))
  THEN (IF a.neg THEN 1 ELSE 0 - 1)
  ELSE IF At(a, i - 1) > Wrap(unsigned_b \div 2 ^ (bi_dwidth * (i - 1)))
  THEN (IF a.neg THEN 0 - 1 ELSE 1)
  ELSE cmp_digits(a, unsigned_b, i - 1)

cmp_sizes(a, n, unsigned_b) ==
  IF a.n < n THEN (IF a.neg THEN 1 ELSE 0 - 1)
  ELSE IF a.n > n THEN (IF a.neg THEN 0 - 1 ELSE 1)
  ELSE cmp_digits(a, unsigned_b, n)

cmp_integral(a, T, b) ==
  IF b = 0 THEN (IF a.n = 0 THEN 0 ELSE IF a.neg THEN 0 - 1 ELSE 1)
  ELSE IF a.neg /\ ~(b < 0) THEN 0 - 1
  ELSE IF ~a.neg /\ b < 0 THEN 1
  ELSE cmp_sizes(a, n_b_digits(T, UnsignedAbs(T, b)), UnsignedAbs(T, b))

(***************************************************************************)
(* Strings.  A string is a sequence of characters; NullPtr is the null     *)
(* const char*.                                                            *)
(***************************************************************************)
DecimalDigits == <<"0", "1", "2", "3", "4", "5", "6", "7", "8", "9">>

isspace(ch) == ch \in {" ", "\t", "\n"}

isdigit(ch) == \E i \in 1 .. 10 : DecimalDigits[i] = ch

\* *dec_it - '0'
char_value(ch) == (CHOOSE i \in 1 .. 10 : DecimalDigits[i] = ch) - 1

NullPtr == <<"nullptr">>

\* leading blanks are not skipped
find_no_skip(s, it) == it

RECURSIVE find_if_not_space(_, _)
find_if_not_space(s, it) ==
  IF it <= Len(s) /\ isspace(s[it]) THEN find_if_not_space(s, it + 1) ELSE it

RECURSIVE find_if_not_digit(_, _)
find_if_not_digit(s, it) ==
  IF it <= Len(s) /\ isdigit(s[it]) THEN find_if_not_digit(s, it + 1) ELSE it

\* the highest power of 10 that fits in a digit is 10 ^ max_batch_size
RECURSIVE batch_size_from(_)
batch_size_from(e) == IF 10 ^ (e + 1) < bi_base THEN batch_size_from(e + 1) ELSE e

max_batch_size == batch_size_from(0)

\* every batch is scaled as a full one
powers_of_full_batch(i) == 10 ^ max_batch_size

powers_of_ten(i) == 10 ^ i

RECURSIVE batch_value(_, _, _, _)
batch_value(s, dec_it, j, batch) ==
  IF j > 0 THEN batch_value(s, dec_it + 1, j - 1, Wrap(char_value(s[dec_it]) + batch * 10))
  ELSE batch

\* std::min(remaining, max_batch_size)
digits_in_batch(dec_it, it) ==
  IF it - dec_it < max_batch_size THEN it - dec_it ELSE max_batch_size

\* the body of the loop on the batches: the value of the batch, then imul1add1
batch_body(v, s, dec_it, it, oom) ==
  imul1add1(v, powers_of_ten(digits_in_batch(dec_it, it)),
            batch_value(s, dec_it, digits_in_batch(dec_it, it), 0), oom)

RECURSIVE batch_loop(_, _, _, _, _)
batch_loop(v, s, dec_it, it, oom) ==
  IF dec_it < it
  THEN LET a == batch_body(v, s, dec_it, it, oom)
       IN  IF a.err # "none" THEN a
           ELSE batch_loop(a.v, s, dec_it + digits_in_batch(dec_it, it), it, oom)
  ELSE Ok(v)

\* number of base bi_base digits that hold any n_base10 decimal digits
RECURSIVE digits_for(_, _)
digits_for(n_base10, c) ==
  IF bi_base ^ c < 10 ^ n_base10 THEN digits_for(n_base10, c + 1) ELSE c

div_ceil(a, b) == (a + b - 1) \div b

\* the scan common to both init_string: sign, start of the digit run, its end
scan(s) ==
  LET it0 == find_if_not_space(s, 1)
      negative == it0 <= Len(s) /\ s[it0] = "-"
      start_digit == IF it0 <= Len(s) /\ s[it0] \in {"-", "+"} THEN it0 + 1 ELSE it0
  IN  [negative |-> negative, start_digit |-> start_digit,
       it |-> find_if_not_digit(s, start_digit)]

\* bi_t::init_string on the object under construction (capacity 0, size 0)
init_string(v, s, oom) ==
  LET sc == scan(s)
      signed == [v EXCEPT !.neg = sc.negative]
      n_digits == digits_for(sc.it - sc.start_digit, 0)
      e == reserve_err(signed, n_digits, oom)
  IN  IF sc.start_digit = sc.it THEN Thrown(signed, "invalid_argument")
      ELSE IF e # "none" THEN Thrown(signed, e)
      ELSE LET b == batch_loop(reserve(signed, n_digits), s, sc.start_digit, sc.it, oom)
           IN  IF b.err # "none" THEN b ELSE Ok(trim_trailing_zeros(b.v))

\* h_::init_string on an existing object x
h_init_string(v, s, oom) ==
  LET sc == scan(s)
      signed == [v EXCEPT !.neg = sc.negative]
      n_digits == div_ceil(sc.it - sc.start_digit, max_batch_size)
      e == reserve_err(signed, n_digits, oom)
  IN  IF sc.start_digit = sc.it THEN Thrown(signed, "invalid_argument")
      ELSE IF e # "none" THEN Thrown(signed, e)
      ELSE LET b == batch_loop(resize_unsafe(reserve(signed, n_digits), 0),
                               s, sc.start_digit, sc.it, oom)
           IN  IF b.err # "none" THEN b ELSE Ok(trim_trailing_zeros(b.v))

(***************************************************************************)
(* to_string                                                               *)
(***************************************************************************)
\* idiv10: divide in place by 10 from the top digit down, carry the remainder
RECURSIVE idiv10_loop(_, _, _)
idiv10_loop(v, i, carry) ==
  IF i > 0
  THEN idiv10_loop(SetAt(v, i - 1, Wrap((bi_base * carry + At(v, i - 1)) \div 10)),
                   i - 1, (bi_base * carry + At(v, i - 1)) % 10)
  ELSE [v |-> v, carry |-> carry]

\* the quotient keeps its size
idiv10_untrimmed(r) == r

idiv10_trim(r) == [v |-> trim_trailing_zeros(r.v), carry |-> r.carry]

idiv10(v) == idiv10_trim(idiv10_loop(v, v.n, 0))

\* floor(bitlen * 0.30103) + 1
decimal_length(v) == (bit_length(v) * 30103) \div 100000 + 1

RECURSIVE to_string_loop(_, _)
to_string_step(d, result) == to_string_loop(d.v, Append(result, DecimalDigits[d.carry + 1]))

to_string_loop(copy_, result) ==
  IF copy_.n > 0 THEN to_string_step(idiv10(copy_), result) ELSE result

\* the characters are left as they were pushed, lowest digit first
not_reversed(s) == s

RECURSIVE reverse(_)
reverse(s) == IF s = << >> THEN << >> ELSE Append(reverse(Tail(s)), Head(s))

push_sign(v, result) == IF v.neg THEN Append(result, "-") ELSE result

to_string(v) ==
  IF v.n = 0 THEN <<"0">>
  ELSE reverse(push_sign(v, to_string_loop(copy(v), << >>)))

(***************************************************************************)
(* The public interface as a state machine.  A call is made when no call   *)
(* is pending (op = "none"); it leaves its arguments and its outcome in    *)
(* the state.  Return then drops them, Keep move-assigns a returned        *)
(* object to x.                                                            *)
(***************************************************************************)
\* a signed type as wide as a digit (int32_t in a 32-bit build) and a wider one
IntTypes ==
  {[bits |-> bi_dwidth, signed |-> TRUE], [bits |-> bi_dwidth + WideExtra, signed |-> TRUE]}

Chars == {" ", "+", "-", "0", "7", "a"}

RECURSIVE StringsUpTo(_)
StringsUpTo(n) ==
  IF n = 0 THEN {<< >>}
  ELSE LET S == StringsUpTo(n - 1)
       IN  S \cup {Append(s, c) : s \in {t \in S : Len(t) = n - 1}, c \in Chars}

Strings == StringsUpTo(string_len)

Builds == {[w |-> ArithWidth, b |-> BitCountMax], [w |-> ParseWidth, b |-> BitCountMax]}

NoResult == << >>

NoCall ==
  /\ op = "none"
  /\ x0 = Zero
  /\ y = Zero
  /\ self = FALSE
  /\ k = 0
  /\ str = << >>
  /\ ret = Zero
  /\ ret2 = Zero
  /\ err = "none"
  /\ outcome = NoResult

Init ==
  /\ \E b \in Builds : bi_dwidth = b.w /\ bitcount_max = b.b
  /\ operand_bits = OperandBits
  /\ string_len = MaxStrLen
  /\ x = Zero
  /\ NoCall

\* a call on x: its name, x after it, its arguments, its results
Answer(name, x1, yy, slf, kk, s, r1, r2, e, answer) ==
  /\ op = "none"
  /\ op' = name
  /\ x0' = x
  /\ x' = x1
  /\ y' = yy
  /\ self' = slf
  /\ k' = kk
  /\ str' = s
  /\ ret' = r1
  /\ ret2' = r2
  /\ err' = e
  /\ outcome' = answer
  /\ UNCHANGED <<bi_dwidth, bitcount_max, operand_bits, string_len>>

\* a call that hands out integer objects only
Call(name, x1, yy, slf, kk, s, r1, r2, e) ==
  Answer(name, x1, yy, slf, kk, s, r1, r2, e, NoResult)

\* a call that returns a new object r.v and leaves x alone
Returns(name, yy, kk, r) ==
  Call(name, x, yy, FALSE, kk, << >>, IF r.err = "none" THEN r.v ELSE Zero, Zero, r.err)

\* a call that works on x in place
InPlace(name, yy, slf, kk, r) ==
  Call(name, r.v, yy, slf, kk, << >>, Zero, Zero, r.err)

Idle ==
  /\ op' = "none"
  /\ x0' = Zero
  /\ y' = Zero
  /\ self' = FALSE
  /\ k' = 0
  /\ str' = << >>
  /\ ret' = Zero
  /\ ret2' = Zero
  /\ err' = "none"
  /\ outcome' = NoResult
  /\ UNCHANGED <<bi_dwidth, bitcount_max, operand_bits, string_len>>

Return == op # "none" /\ x' = x /\ Idle

\* x = std::move(ret): operator=(bi_t&&)
Keep == op # "none" /\ err = "none" /\ x' = ret /\ Idle

\* x = std::move(ret2), the remainder of div
KeepSecond == op = "div" /\ err = "none" /\ x' = ret2 /\ Idle

\* y is an operand of its own or x itself
(***************************************************************************)
(* The calls.  The allocator may fail (oom) under the copy assignment, the  *)
(* assignment of a builtin integer, ++, --, +=, -=, *=, <<= and set_bit;   *)
(* the other calls are made with an allocator that succeeds (they still    *)
(* throw overflow_error when the result needs more than bi_max_digits).    *)
(***************************************************************************)
\* the operand of a compound form: an object of its own, or x itself
Others == {[y |-> yy, self |-> FALSE] : yy \in Operands} \cup {[y |-> x, self |-> TRUE]}

ConstructIntegral ==
  \E T \in IntTypes : \E value \in TMin(T) .. TMax(T) :
    Returns("bi_t(T)", Zero, value, construct_integral(T, value, FALSE))

AssignIntegral ==
  \E T \in IntTypes : \E value \in TMin(T) .. TMax(T) : \E oom \in BOOLEAN :
    InPlace("=T", Zero, FALSE, value, assign_integral(x, T, value, oom))

CopyConstruct == Returns("bi_t(const bi_t&)", Zero, 0, Ok(copy(x)))

\* operator=(const bi_t&): nothing happens when other is this
CopyAssign ==
  \E o \in Others : \E oom \in BOOLEAN :
    InPlace("=", o.y, o.self, 0,
            IF o.self THEN Ok(x)
            ELSE IF oom /\ Cap(o.y) > 0 THEN Thrown(x, "bad_alloc") ELSE Ok(copy(o.y)))

\* bi_t(bi_t&&): the new object takes the store, x is left 0
MoveConstruct ==
  Call("bi_t(bi_t&&)", moved_from(x), Zero, FALSE, 0, << >>, x, Zero, "none")

\* operator=(bi_t&&): x takes the store and the sign of other, nothing happens
\* when other is this; outcome.other is the state other is left in
MoveAssign ==
  \E o \in Others :
    Answer("=&&", IF o.self THEN x ELSE o.y, o.y, o.self, 0, << >>, Zero, Zero, "none",
           [other |-> IF o.self THEN x ELSE moved_from(o.y)])

\* bi_t(const std::string&) and bi_t(const char*)
ConstructString ==
  /\ max_batch_size > 0
  /\ \E s \in Strings \cup {NullPtr} :
       LET r == IF s = NullPtr THEN Thrown(Zero, "invalid_argument")
                ELSE init_string(Zero, s, FALSE)
       IN  Call("bi_t(string)", x, Zero, FALSE, 0, s,
                IF r.err = "none" THEN r.v ELSE Zero, Zero, r.err)

\* x = s: h_::init_string(x, s)
AssignString ==
  /\ max_batch_size > 0
  /\ \E s \in Strings :
       LET r == h_init_string(x, s, FALSE)
       IN  Call("=string", r.v, Zero, FALSE, 0, s, Zero, Zero, r.err)

\* bi_t(x.to_string()): the string x formats to, parsed by the constructor
Reparsed(s, r) ==
  Call("bi_t(to_string)", x, Zero, FALSE, 0, s,
       IF r.err = "none" THEN r.v ELSE Zero, Zero, r.err)

Reparse(s) == Reparsed(s, init_string(Zero, s, FALSE))

RoundTrip == max_batch_size > 0 /\ Reparse(to_string(x))

UnaryMinus == Returns("-x", Zero, 0, Ok(unary_minus(x)))

Negate == InPlace("negate", Zero, FALSE, 0, Ok(negate(x)))

Complement == Returns("~", Zero, 0, complement(x, FALSE))

PreIncrement == \E oom \in BOOLEAN : InPlace("++x", Zero, FALSE, 0, pre_increment(x, oom))

PreDecrement == \E oom \in BOOLEAN : InPlace("--x", Zero, FALSE, 0, pre_decrement(x, oom))

\* operator++(int): the copy is made first, and returned
PostIncrement ==
  \E oom \in BOOLEAN :
    IF oom /\ Cap(x) > 0
    THEN Call("x++", x, Zero, FALSE, 0, << >>, Zero, Zero, "bad_alloc")
    ELSE LET r == pre_increment(x, oom)
         IN  Call("x++", r.v, Zero, FALSE, 0, << >>,
                  IF r.err = "none" THEN copy(x) ELSE Zero, Zero, r.err)

PostDecrement ==
  \E oom \in BOOLEAN :
    IF oom /\ Cap(x) > 0
    THEN Call("x--", x, Zero, FALSE, 0, << >>, Zero, Zero, "bad_alloc")
    ELSE LET r == pre_decrement(x, oom)
         IN  Call("x--", r.v, Zero, FALSE, 0, << >>,
                  IF r.err = "none" THEN copy(x) ELSE Zero, Zero, r.err)

Add == \E yy \in Operands : Returns("+", yy, 0, add(Zero, x, yy, FALSE, FALSE, FALSE))

Sub == \E yy \in Operands : Returns("-", yy, 0, sub(Zero, x, yy, FALSE, FALSE, FALSE))

Mul == \E yy \in Operands : Returns("*", yy, 0, mul(Zero, x, yy, FALSE, FALSE))

AddAssign ==
  \E o \in Others : \E oom \in BOOLEAN :
    InPlace("+=", o.y, o.self, 0, add(x, x, o.y, TRUE, o.self, oom))

SubAssign ==
  \E o \in Others : \E oom \in BOOLEAN :
    InPlace("-=", o.y, o.self, 0, sub(x, x, o.y, TRUE, o.self, oom))

MulAssign ==
  \E o \in Others : \E oom \in BOOLEAN :
    InPlace("*=", o.y, o.self, 0, mul(x, x, o.y, TRUE, oom))

\* div: the pair (quot, rem)
\* what the callers of divide return or keep
quot(r) == [v |-> r.q, err |-> r.err]

rem(r) == [v |-> r.r, err |-> r.err]

\* outcome tells which algorithm ran and what Algorithm D went through
Pair(name, yy, r) ==
  Answer(name, x, yy, FALSE, 0, << >>,
         IF r.err = "none" THEN r.q ELSE Zero, IF r.err = "none" THEN r.r ELSE Zero, r.err,
         [algo |-> r.algo, add_back |-> r.add_back, carry_cancels |-> r.carry_cancels,
          qhat_ok |-> r.qhat_ok, corrected |-> r.corrected,
          in_capacity |-> r.in_capacity])

\* swap(quot) made without regard to what divide did
swap_unchecked(r) == r

\* swap(quot), swap(rem): reached only when divide returned
Swapped(r) == IF r.err = "none" THEN r ELSE Thrown(x, r.err)

Div == \E yy \in Operands : Pair("div", yy, divide(x, yy, FALSE))

Quotient == \E yy \in Operands : Returns("/", yy, 0, quot(divide(x, yy, FALSE)))

Remainder == \E yy \in Operands : Returns("%", yy, 0, rem(divide(x, yy, FALSE)))

\* operator/=: divide into quot and rem, then swap(quot)
QuotientAssign ==
  \E o \in Others : InPlace("/=", o.y, o.self, 0, Swapped(quot(divide(x, o.y, FALSE))))

RemainderAssign ==
  \E o \in Others : InPlace("%=", o.y, o.self, 0, Swapped(rem(divide(x, o.y, FALSE))))

LeftShift ==
  \E shift \in 0 .. MaxShift :
    Returns("<<", Zero, shift, left_shift(Zero, x, shift, FALSE, FALSE))

RightShift ==
  \E shift \in 0 .. MaxShift :
    Returns(">>", Zero, shift, right_shift(Zero, x, shift, FALSE, FALSE))

LeftShiftAssign ==
  \E shift \in 0 .. MaxShift : \E oom \in BOOLEAN :
    InPlace("<<=", Zero, FALSE, shift, left_shift(x, x, shift, TRUE, oom))

RightShiftAssign ==
  \E shift \in 0 .. MaxShift :
    InPlace(">>=", Zero, FALSE, shift, right_shift(x, x, shift, TRUE, FALSE))

BitwiseOps == {"AND", "OR", "XOR"}

\* operator&, operator|, operator^: bitwise_operation on a new result
Bitwise ==
  \E f \in BitwiseOps : \E yy \in Operands :
    Returns(f, yy, 0, bitwise_operation_impl(f, Zero, x, yy, FALSE))

\* operator&=, operator|=, operator^=: ibitwise_operation, result is *this
BitwiseAssign ==
  \E f \in BitwiseOps : \E o \in Others :
    InPlace(f \o "=", o.y, o.self, 0, bitwise_operation_impl(f, x, x, o.y, FALSE))

\* ~r, when the expression r was evaluated without an exception
not_of(r) == IF r.err # "none" THEN r ELSE complement(r.v, FALSE)

\* a f b, when both operands were evaluated without an exception
both(f, a, b) ==
  IF a.err # "none" THEN a
  ELSE IF b.err # "none" THEN b
  ELSE bitwise_operation_impl(f, Zero, a.v, b.v, FALSE)

Dual(f) == IF f = "AND" THEN "OR" ELSE "AND"

\* the two sides of a De Morgan law, l = ~(x f y) and r = (~x) g (~y)
Sides(name, yy, l, r) ==
  Call(name, x, yy, FALSE, 0, << >>,
       IF l.err = "none" /\ r.err = "none" THEN l.v ELSE Zero,
       IF l.err = "none" /\ r.err = "none" THEN r.v ELSE Zero,
       IF l.err # "none" THEN l.err ELSE r.err)

DeMorgan ==
  \E f \in {"AND", "OR"} : \E yy \in Operands :
    Sides("~" \o f, yy,
          not_of(bitwise_operation_impl(f, Zero, x, yy, FALSE)),
          both(Dual(f), complement(x, FALSE), complement(yy, FALSE)))

\* the builtin types compared with: signed and unsigned, one digit wide and wider
CmpTypes == IntTypes \cup {[bits |-> T.bits, signed |-> FALSE] : T \in IntTypes}

\* a OP b for the six operators of bi_t, then b OP a for the non-member ones
Operators(T, c) ==
  [T |-> T,
   eq |-> c = 0, ne |-> c # 0, lt |-> c < 0, gt |-> c > 0, le |-> c <= 0, ge |-> c >= 0,
   req |-> c = 0, rne |-> c # 0, rlt |-> c > 0, rgt |-> c < 0, rle |-> c >= 0, rge |-> c <= 0]

Compare ==
  \E T \in CmpTypes : \E value \in TMin(T) .. TMax(T) :
    Answer("cmp", x, Zero, FALSE, value, << >>, Zero, Zero, "none",
           Operators(T, cmp_integral(x, T, value)))

SetBit ==
  \E i \in 0 .. MaxShift : \E oom \in BOOLEAN :
    InPlace("set_bit", Zero, FALSE, i, set_bit(x, i, oom))

\* the integers of the C library: what bi_prep_i32 and the like build
LibraryInt(i) ==
  [d |-> DigitsOf(ABS(i)), n |-> IF i < 0 THEN 0 - Len(DigitsOf(ABS(i))) ELSE Len(DigitsOf(ABS(i)))]

LibraryInts == {LibraryInt(i) : i \in (1 - 2 ^ operand_bits) .. (2 ^ operand_bits - 1)}

Divided(a, b, qr) ==
  Answer("bi_divide_qr", x, Zero, FALSE, 0, << >>, Zero, Zero, "none",
         [a |-> a, b |-> b, quotient |-> qr.Q, remainder |-> qr.R])

\* bi_divide_qr(q, r, a, b) with q and r from bi_preps and b not 0
DivideQr ==
  /\ op = "none"
  /\ \E a \in LibraryInts : \E b \in LibraryInts \ {LibraryInt(0)} :
       Divided(a, b, bi_divide_qr(bi_prep, bi_prep, a, b))

\* bi_mul(c, a, b) into a prepared c, bi_mul(a, a, b) and bi_mul(b, a, b), each
\* from the same a and b; stale is what memory outside the digits written holds
Multiply ==
  /\ op = "none"
  /\ \E a \in LibraryInts : \E b \in LibraryInts : \E stale \in Digit :
       Answer("bi_mul", x, Zero, FALSE, stale, << >>, Zero, Zero, "none",
              [a |-> a, b |-> b,
               c |-> bi_mul(bi_prep, a, b, FALSE, stale),
               into_a |-> bi_mul(a, a, b, TRUE, stale),
               into_b |-> bi_mul(b, a, b, TRUE, stale)])

\* imul1add1(v, k) on a copy of x
MulAddLimb ==
  \E m \in Digit : \E kk \in Digit :
    Answer("imul1add1", x, Zero, FALSE, kk, << >>,
           imul1add1(copy(x), m, kk, FALSE).v, Zero, imul1add1(copy(x), m, kk, FALSE).err,
           [v |-> m])

\* v in a store of bi_max_digits cells: the cells from its size on hold
\* stale, what an earlier and larger value left there
Stored(v, stale) ==
  [v EXCEPT !.d = [i \in 1 .. bi_max_digits |-> IF i <= v.n THEN v.d[i] ELSE stale]]

\* what the caller has of the result of a kernel: the exception, the size,
\* the sign and the digits below the size
Seen(r) ==
  [err |-> r.err, n |-> r.v.n, neg |-> r.v.neg, d |-> [i \in 1 .. r.v.n |-> r.v.d[i]]]

\* the kernels that write to result; rx is &result == &a, ry is &result == &b
Kernel(name, result, a, b, kk, rx, ry) ==
  CASE name = "add" -> add(result, a, b, rx, ry, FALSE)
    [] name = "sub" -> sub(result, a, b, rx, ry, FALSE)
    [] name = "mul" -> mul(result, a, b, rx \/ ry, FALSE)
    [] name = "left_shift" -> left_shift(result, a, kk, rx, FALSE)
    [] name = "right_shift" -> right_shift(result, a, kk, rx, FALSE)
    [] name \in BitwiseOps -> bitwise_operation_impl(name, result, a, b, FALSE)
    [] name = "set_bit" -> set_bit(result, kk, FALSE)
    [] name = "++" -> pre_increment(result, FALSE)
    [] name = "--" -> pre_decrement(result, FALSE)

\* the calls of the kernels: two operands, or one operand and a bit count
KernelCalls ==
  {[name |-> f, y |-> yy, k |-> 0] : f \in {"add", "sub", "mul"} \cup BitwiseOps, yy \in Operands}
  \cup {[name |-> f, y |-> Zero, k |-> kk] : f \in {"left_shift", "right_shift"}, kk \in 0 .. MaxShift}

\* the calls made on x only
SelfKernelCalls ==
  {[name |-> "set_bit", y |-> Zero, k |-> kk] : kk \in 0 .. MaxShift}
  \cup {[name |-> f, y |-> Zero, k |-> 0] : f \in {"++", "--"}}

\* a kernel run twice from x: into a result whose store is new, and into one
\* of size 0 whose store holds stale
IntoResult ==
  /\ op = "none"
  /\ \E c \in KernelCalls : \E stale \in Digit :
       Answer(c.name, x, c.y, FALSE, c.k, << >>, Zero, Zero, "none",
              [stale |-> stale, into |-> "result",
               new |-> Seen(Kernel(c.name, Zero, x, c.y, c.k, FALSE, FALSE)),
               used |-> Seen(Kernel(c.name, Stored(Zero, stale), x, c.y, c.k, FALSE, FALSE)),
               capacity |-> Cap(Kernel(c.name, Zero, x, c.y, c.k, FALSE, FALSE).v),
               store |-> Kernel(c.name, Stored(Zero, stale), x, c.y, c.k, FALSE, FALSE).v.d])

\* a kernel run twice into its first operand: x in a store of its size, and x
\* in a store with stale beyond its size; the second operand is y or x itself
IntoSelf ==
  /\ op = "none"
  /\ \E c \in KernelCalls \cup SelfKernelCalls : \E slf \in BOOLEAN : \E stale \in Digit :
       Answer(c.name, x, IF slf THEN x ELSE c.y, slf, c.k, << >>, Zero, Zero, "none",
              [stale |-> stale, into |-> "self",
               new |-> Seen(Kernel(c.name, x, x, IF slf THEN x ELSE c.y, c.k, TRUE, slf)),
               used |-> Seen(Kernel(c.name, Stored(x, stale), Stored(x, stale),
                                    IF slf THEN Stored(x, stale) ELSE c.y, c.k, TRUE, slf)),
               capacity |-> Cap(Kernel(c.name, x, x, IF slf THEN x ELSE c.y, c.k, TRUE, slf).v),
               store |-> Kernel(c.name, Stored(x, stale), Stored(x, stale),
                                IF slf THEN Stored(x, stale) ELSE c.y, c.k, TRUE, slf).v.d])

\* A loop run one iteration a step: op is the function that runs, outcome
\* holds its locals
Enter(name, yy, s, locals) ==
  Answer(name, x, yy, FALSE, 0, s, Zero, Zero, "none", locals)

Iterate(locals) ==
  /\ outcome' = locals
  /\ UNCHANGED <<bi_dwidth, bitcount_max, operand_bits, string_len,
                 x, op, x0, y, self, k, str, ret, ret2, err>>

Leave == x' = x /\ Idle

\* div_algo_knuth(q, r, x, v) as divide calls it: v has more than one digit
\* and x is not smaller than v
KnuthEnter ==
  /\ op = "none"
  /\ \E v \in Operands :
       /\ v.n > 1
       /\ ~((x.n = v.n /\ At(x, x.n - 1) < At(v, v.n - 1)) \/ x.n < v.n)
       /\ Enter("div_algo_knuth", v, << >>, [pc |-> "normalize", e |-> 0])

\* while ((v_msd << e) < b_half) ++e
NormalizeStep ==
  /\ op = "div_algo_knuth" /\ outcome.pc = "normalize"
  /\ normalize_test(At(y, y.n - 1), outcome.e)
  /\ Iterate([pc |-> "normalize", e |-> outcome.e + 1])

\* the locals at the head of the iteration j: q_hat and r_hat as first estimated
AtJ(q, u_norm, v_norm, j, g, e, steps, tmp) ==
  [pc |-> "q_hat", e |-> e, q |-> q, u |-> u_norm, v |-> v_norm, j |-> j, g |-> g,
   steps |-> steps, left |-> FALSE,
   est |-> [q_hat |-> tmp \div At(v_norm, v_norm.n - 1),
            r_hat |-> tmp % At(v_norm, v_norm.n - 1), runs |-> 0]]

HeadOfJ(q, u_norm, v_norm, j, g, e, steps) ==
  AtJ(q, u_norm, v_norm, j, g, e, steps,
      WrapDD(At(u_norm, j + v_norm.n) * bi_base + At(u_norm, j + v_norm.n - 1)))

\* the loop on e is left: u_norm and v_norm are made, j = m - n
NormalizeEnd ==
  /\ op = "div_algo_knuth" /\ outcome.pc = "normalize"
  /\ ~normalize_test(At(y, y.n - 1), outcome.e)
  /\ Iterate(HeadOfJ(resize(Zero, x0.n - y.n + 1), u_normalized(x0, outcome.e),
                     v_normalized(y, outcome.e), x0.n - y.n, NoSteps, outcome.e, 0))

\* the body of the correction loop, once; left is its break
QHatStep ==
  /\ op = "div_algo_knuth" /\ outcome.pc = "q_hat" /\ ~outcome.left
  /\ q_hat_test(outcome.est.q_hat, outcome.est.r_hat, At(outcome.v, outcome.v.n - 2),
                At(outcome.u, outcome.j + outcome.v.n - 2))
  /\ Iterate([outcome EXCEPT
               !.est = q_hat_body(outcome.est.q_hat, outcome.est.r_hat,
                                  At(outcome.v, outcome.v.n - 1), outcome.est.runs),
               !.left = q_hat_body(outcome.est.q_hat, outcome.est.r_hat,
                                   At(outcome.v, outcome.v.n - 1),
                                   outcome.est.runs).r_hat >= bi_base])

\* the locals after steps (4) to (7) of the iteration j, l is what they leave
AfterJ(l, v_norm, j, e, steps) ==
  IF j > 0 THEN HeadOfJ(l.q, l.u, v_norm, j - 1, l.g, e, steps + 1)
  ELSE [pc |-> "unnormalize", e |-> e, q |-> l.q, u |-> l.u, v |-> v_norm, g |-> l.g,
        steps |-> steps + 1]

\* the correction loop is left: steps (4) to (7), then --j
QHatEnd ==
  /\ op = "div_algo_knuth" /\ outcome.pc = "q_hat"
  /\ \/ outcome.left
     \/ ~q_hat_test(outcome.est.q_hat, outcome.est.r_hat, At(outcome.v, outcome.v.n - 2),
                    At(outcome.u, outcome.j + outcome.v.n - 2))
  /\ Iterate(AfterJ(D4_multiply_subtract(outcome.q, outcome.u, outcome.v, outcome.j,
                                         outcome.g, outcome.est),
                    outcome.v, outcome.j, outcome.e, outcome.steps))

\* step (8), and div_algo_knuth returns
KnuthLeave == op = "div_algo_knuth" /\ outcome.pc = "unnormalize" /\ Leave

\* to_string of an x that is not 0: copy = *this
ToStringEnter ==
  /\ op = "none" /\ x.n > 0
  /\ Enter("to_string", Zero, << >>, [copy |-> copy(x), result |-> << >>, steps |-> 0])

\* while (copy.size()) result.push_back('0' + copy.idiv10())
ToStringStep ==
  /\ op = "to_string" /\ outcome.copy.n > 0
  /\ Iterate([copy |-> idiv10(outcome.copy).v,
              result |-> Append(outcome.result,
                                DecimalDigits[idiv10(outcome.copy).carry + 1]),
              steps |-> outcome.steps + 1])

ToStringLeave == op = "to_string" /\ outcome.copy.n = 0 /\ Leave

\* init_string(s) up to the loop on the batches, for an s that has digits
\* and a new object that has room for them
ParseEnter ==
  /\ op = "none" /\ max_batch_size > 0
  /\ \E s \in Strings :
       /\ scan(s).start_digit # scan(s).it
       /\ reserve_err(Zero, digits_for(scan(s).it - scan(s).start_digit, 0), FALSE) = "none"
       /\ Enter("init_string", Zero, s,
                [v |-> reserve([Zero EXCEPT !.neg = scan(s).negative],
                               digits_for(scan(s).it - scan(s).start_digit, 0)),
                 dec_it |-> scan(s).start_digit, it |-> scan(s).it, steps |-> 0,
                 err |-> "none"])

\* one batch: imul1add1 may throw
ParseStep ==
  /\ op = "init_string" /\ outcome.err = "none" /\ outcome.dec_it < outcome.it
  /\ Iterate([v |-> batch_body(outcome.v, str, outcome.dec_it, outcome.it, FALSE).v,
              dec_it |-> outcome.dec_it + digits_in_batch(outcome.dec_it, outcome.it),
              it |-> outcome.it, steps |-> outcome.steps + 1,
              err |-> batch_body(outcome.v, str, outcome.dec_it, outcome.it, FALSE).err])

ParseLeave ==
  /\ op = "init_string"
  /\ outcome.err # "none" \/ outcome.dec_it >= outcome.it
  /\ Leave

\* test_bit(i) const noexcept
TestBit ==
  \E i \in 0 .. MaxShift :
    Answer("test_bit", x, Zero, FALSE, i, << >>, Zero, Zero, "none", [bit |-> test_bit(x, i)])

Next ==
  \/ ConstructIntegral \/ AssignIntegral \/ CopyConstruct \/ CopyAssign
  \/ MoveConstruct \/ ConstructString \/ AssignString
  \/ UnaryMinus \/ Negate \/ Complement
  \/ PreIncrement \/ PreDecrement \/ PostIncrement \/ PostDecrement
  \/ Add \/ Sub \/ Mul \/ AddAssign \/ SubAssign \/ MulAssign
  \/ Div \/ Quotient \/ Remainder \/ QuotientAssign \/ RemainderAssign
  \/ LeftShift \/ RightShift \/ LeftShiftAssign \/ RightShiftAssign
  \/ Bitwise \/ BitwiseAssign \/ SetBit
  \/ Return \/ Keep \/ KeepSecond

Spec == Init /\ [][Next]_vars

(***************************************************************************)
(* The operators that return a new object, run on every canonical x of a   *)
(* build with more digits and on wider operands.                           *)
(***************************************************************************)
CanonicalInts ==
  {FromInt(i) : i \in (1 - bi_base ^ bi_max_digits) .. (bi_base ^ bi_max_digits - 1)}

InitValues ==
  /\ bi_dwidth = ArithWidth
  /\ bitcount_max = WideBitCountMax
  /\ operand_bits = WideOperandBits
  /\ string_len = MaxStrLen
  /\ x \in CanonicalInts
  /\ NoCall

NextValues ==
  \/ Add \/ Sub \/ Mul \/ Div \/ Quotient \/ Remainder
  \/ LeftShift \/ RightShift \/ Bitwise \/ UnaryMinus \/ Complement
  \/ Return

SpecValues == InitValues /\ [][NextValues]_vars

(***************************************************************************)
(* The parser, run on longer strings in a build whose digit holds 10 and   *)
(* whose integers have two digits.                                         *)
(***************************************************************************)
\* a build whose digit holds one decimal digit, one whose digit holds two
ParseBuilds ==
  {[w |-> ParseWidth, b |-> ParseBitCountMax], [w |-> BatchWidth, b |-> BatchBitCountMax]}

InitString ==
  /\ \E b \in ParseBuilds : bi_dwidth = b.w /\ bitcount_max = b.b
  /\ operand_bits = OperandBits
  /\ string_len = WideStrLen
  /\ x \in Operands
  /\ NoCall

NextString == ConstructString \/ AssignString \/ Return

SpecString == InitString /\ [][NextString]_vars

(***************************************************************************)
(* The two sides of De Morgan's laws, over the operands of SpecValues.     *)
(***************************************************************************)
NextDeMorgan == DeMorgan \/ Return

SpecDeMorgan == InitValues /\ [][NextDeMorgan]_vars

(***************************************************************************)
(* Comparisons with builtin integers, over the operands of SpecValues.     *)
(***************************************************************************)
NextCompare == Compare \/ Return

SpecCompare == InitValues /\ [][NextCompare]_vars

(***************************************************************************)
(* Moves, from every canonical x and into it.                              *)
(***************************************************************************)
NextMove == MoveConstruct \/ MoveAssign \/ Return

SpecMove == InitValues /\ [][NextMove]_vars

(***************************************************************************)
(* Single bits, set and tested in every canonical x, at indices below and  *)
(* beyond its top bit and beyond the widest integer.                       *)
(***************************************************************************)
NextBits == SetBit \/ TestBit \/ Return

SpecBits == InitValues /\ [][NextBits]_vars

(***************************************************************************)
(* Multiplication: by an operand, in place by an operand or by x itself,   *)
(* and by a digit with a digit added, in a build whose integers have four  *)
(* digits, so that two digits are multiplied by two.                       *)
(***************************************************************************)
InitMultiply ==
  /\ bi_dwidth = ArithWidth
  /\ bitcount_max = MulBitCountMax
  /\ operand_bits = WideOperandBits
  /\ string_len = MaxStrLen
  /\ x \in CanonicalInts
  /\ NoCall

NextMultiply == Mul \/ MulAssign \/ MulAddLimb \/ Return

SpecMultiply == InitMultiply /\ [][NextMultiply]_vars

(***************************************************************************)
(* The kernels, each run from the same operands into a new store and into  *)
(* a store that holds stale digits; the division, which makes its stores.  *)
(***************************************************************************)
InitStore ==
  /\ bi_dwidth = ArithWidth
  /\ bitcount_max = WideBitCountMax
  /\ operand_bits = OperandBits
  /\ string_len = MaxStrLen
  /\ x \in CanonicalInts
  /\ NoCall

NextStore == IntoResult \/ IntoSelf \/ Div \/ Return

SpecStore == InitStore /\ [][NextStore]_vars

(***************************************************************************)
(* The loops of div_algo_knuth, to_string and init_string, one iteration a *)
(* step: the division in the build of SpecValues, the parser in a build    *)
(* whose digit holds one decimal digit.  A loop that has been entered goes *)
(* on: the thread that runs it is not stopped.                             *)
(***************************************************************************)
InitSteps ==
  /\ \/ /\ bi_dwidth = ArithWidth /\ bitcount_max = WideBitCountMax
        /\ operand_bits = WideOperandBits /\ string_len = MaxStrLen
        /\ x \in CanonicalInts
     \/ /\ bi_dwidth = ParseWidth /\ bitcount_max = ParseBitCountMax
        /\ operand_bits = OperandBits /\ string_len = WideStrLen
        /\ x \in Operands
  /\ NoCall

LoopStep ==
  \/ NormalizeStep \/ NormalizeEnd \/ QHatStep \/ QHatEnd \/ KnuthLeave
  \/ ToStringStep \/ ToStringLeave \/ ParseStep \/ ParseLeave

NextSteps == KnuthEnter \/ ToStringEnter \/ ParseEnter \/ LoopStep

SpecSteps == InitSteps /\ [][NextSteps]_vars /\ WF_vars(LoopStep)

(***************************************************************************)
(* The C library, on integers of up to three digits.                       *)
(***************************************************************************)
InitLibrary ==
  /\ bi_dwidth = ArithWidth
  /\ bitcount_max = WideBitCountMax
  /\ operand_bits = WideOperandBits
  /\ string_len = MaxStrLen
  /\ x = Zero
  /\ NoCall

NextLibrary == DivideQr \/ Multiply \/ Return

SpecLibrary == InitLibrary /\ [][NextLibrary]_vars

(***************************************************************************)
(* Formatting and parsing back, over every integer of a build whose digit  *)
(* holds one decimal digit and of one whose digit holds two.               *)
(***************************************************************************)
InitRoundTrip ==
  /\ \E b \in ParseBuilds : bi_dwidth = b.w /\ bitcount_max = b.b
  /\ operand_bits = OperandBits
  /\ string_len = MaxStrLen
  /\ x \in CanonicalInts
  /\ NoCall

NextRoundTrip == RoundTrip \/ Return

SpecRoundTrip == InitRoundTrip /\ [][NextRoundTrip]_vars

(***************************************************************************)
(* Properties                                                              *)
(***************************************************************************)
\* the integers a caller holds: x and what the last call returned
Objects == {x, ret, ret2}

Canonical(v) ==
  /\ (v.n = 0) <=> (Abs(v) = 0)
  /\ v.n > 0 => At(v, v.n - 1) # 0

\* an Int of the data model: canonical, and 0 has sign +
WellFormed(v) == Canonical(v) /\ (v.n = 0 => ~v.neg)

IsAbs(a) == IF a < 0 THEN 0 - a ELSE a

\* C1: after any sequence of public operations every integer is in canonical
\* form: its size is 0 exactly when its value is 0, and its top digit is not 0.
C1_CanonicalForm == \A v \in Objects : Canonical(v)

\* a subtraction in place has dropped a leading digit
C1_Witness == op = "-=" /\ err = "none" /\ ~self /\ x0.n = 2 /\ x.n = 1

\* C2: after every operation every integer of size 0 has sign +; -0 is never
\* produced, the quotient and the remainder of a division included.
C2_NoNegativeZero == \A v \in Objects : v.n = 0 => ~v.neg

\* truncated division of integers
TruncQuot(a, b) ==
  IF (a < 0) = (b < 0) THEN IsAbs(a) \div IsAbs(b) ELSE 0 - (IsAbs(a) \div IsAbs(b))

DivisionContract(a, d, q, r) ==
  /\ q * d + r = a
  /\ IsAbs(r) < IsAbs(d)
  /\ r = 0 \/ ((r < 0) = (a < 0))

\* C3: for every x and every d # 0, div returns (q, r) with q * d + r = x,
\* |r| < |d| and r = 0 or sign(r) = sign(x); / returns that q and % that r.
C3_DivisionContract ==
  (op \in {"div", "/", "%"} /\ Val(y) # 0) =>
    /\ err = "none"
    /\ op = "div" => DivisionContract(Val(x0), Val(y), Val(ret), Val(ret2))
    /\ op = "/" => Val(ret) = TruncQuot(Val(x0), Val(y))
    /\ op = "%" => Val(ret) = Val(x0) - Val(y) * TruncQuot(Val(x0), Val(y))

\* Algorithm D has divided a negative three-digit x by a two-digit d, and the
\* remainder is not 0
C3_Witness ==
  /\ op = "div" /\ err = "none"
  /\ x0.n = 3 /\ x0.neg /\ y.n = 2 /\ ~y.neg
  /\ ret.n > 0 /\ ret2.n > 0

\* C4: x >> s is floor(x / 2^s) for x of either sign; it is -1 for a negative
\* x once s reaches the bit length of x.
C4_RightShiftFloor ==
  op = ">>" =>
    /\ err = "none"
    /\ Val(ret) = Val(x0) \div (2 ^ k)
    /\ (x0.neg /\ k >= bit_length(x0)) => Val(ret) = 0 - 1

\* a negative three-digit x lost nonzero bits across a digit boundary
C4_Witness ==
  /\ op = ">>" /\ err = "none" /\ x0.neg /\ x0.n = 3 /\ k = bi_dwidth + 1
  /\ Val(x0) % (2 ^ k) # 0 /\ Val(ret) < 0 - 1

\* C5: after x >>= s the value of x is floor(x_old / 2^s), the value x_old >> s
\* returns.
C5_RightShiftAssignFloor ==
  (op = ">>=" /\ WellFormed(x0)) =>
    /\ err = "none"
    /\ Val(x) = Val(x0) \div (2 ^ k)
    /\ Val(x) = Val(right_shift(Zero, x0, k, FALSE, FALSE).v)

\* bit i of the infinite two's complement encoding of the integer a
TwosBit(a, i) == (a \div (2 ^ i)) % 2

BitOf(f, a, b) ==
  IF f = "AND" THEN a * b
  ELSE IF f = "OR" THEN a + b - a * b
  ELSE (a + b) % 2

\* r is a f b bit by bit; beyond bitcount_max bits all three are sign bits
IsBitwise(f, a, b, r) ==
  \A i \in 0 .. bitcount_max + 1 : TwosBit(r, i) = BitOf(f, TwosBit(a, i), TwosBit(b, i))

\* C6: x & y, x | y and x ^ y are the operation applied bit by bit to the
\* infinite two's complement encodings of x and y, read back as an integer.
C6_BitwiseTwosComplement ==
  (op \in BitwiseOps /\ err = "none") => IsBitwise(op, Val(x0), Val(y), Val(ret))

\* C7: after x &= y, x |= y, x ^= y, x is what the binary operator returns
\* for x_old and y, whatever x's store held.
C7_BitwiseAssignEqualsBinary ==
  \A f \in BitwiseOps :
    op = f \o "=" =>
      LET b == bitwise_operation_impl(f, Zero, x0, y, FALSE)
      IN  /\ err = b.err
          /\ err = "none" => (Val(x) = Val(b.v) /\ x.n = b.v.n /\ x.neg = b.v.neg)

\* x was nonnegative with a written, nonzero cell beyond its size, y had more
\* digits than x
C7_Witness ==
  /\ op = "AND=" /\ err = "none" /\ ~self
  /\ ~x0.neg /\ x0.n < y.n /\ Cap(x0) > x0.n
  /\ x0.d[x0.n + 1] \in 1 .. bi_dmax

\* the formats of a string: blanks, at most one sign, digits, and the rest
Blanks(s) == \A i \in 1 .. Len(s) : isspace(s[i])

Digits(s) == Len(s) > 0 /\ \A i \in 1 .. Len(s) : isdigit(s[i])

Between(s, i, j) == SubSeq(s, i, j - 1)

\* blanks, sign, digits, and rest a suffix for which Rest holds
Format(s, Rest(_)) ==
  \E i, j, l \in 1 .. Len(s) + 1 :
    /\ i <= j /\ j < l /\ j - i <= 1
    /\ Blanks(Between(s, 1, i))
    /\ Between(s, i, j) \in {<< >>, <<"+">>, <<"-">>}
    /\ Digits(Between(s, j, l))
    /\ Rest(Between(s, l, Len(s) + 1))

Nothing(s) == s = << >>

NoDigitFirst(s) == s = << >> \/ ~isdigit(s[1])

Parsing == op \in {"bi_t(string)", "=string"}

\* C8 as stated: parsing succeeds exactly on blanks, at most one sign, digits
\* and then the end of the input; every other string is a ParseError.
C8_StrictFormat ==
  Parsing => (err = "invalid_argument" <=> (str = NullPtr \/ ~Format(str, Nothing)))

\* C8: parsing is a ParseError exactly when no digit follows the blanks and the
\* sign (or the pointer is null); what follows the digits is not read.
C8_PrefixFormat ==
  Parsing => (err = "invalid_argument" <=> (str = NullPtr \/ ~Format(str, NoDigitFirst)))

\* a sign, a digit and a trailing blank were parsed as -7
C8_Witness ==
  /\ op = "bi_t(string)" /\ str = <<"-", "7", " ">> /\ err = "none"
  /\ Val(ret) = 0 - 7

\* C9: when the assignment of a string to x fails with ParseError, x keeps its
\* value and its sign.
C9_ParseAllOrNothing ==
  (op = "=string" /\ err = "invalid_argument") => (Val(x) = Val(x0) /\ x.neg = x0.neg)

\* C10: when a call fails with overflow_error or bad_alloc, x has the value,
\* the sign and the canonical form it had before.
C10_StrongGuarantee ==
  (err \in {"overflow_error", "bad_alloc"} /\ WellFormed(x0)) =>
    (Val(x) = Val(x0) /\ x.neg = x0.neg /\ x.n = x0.n /\ WellFormed(x))

DivisionCalls == {"/", "%", "div", "/=", "%="}

\* C11: dividing by zero with /, %, div, /= or %= raises division_by_zero,
\* returns no quotient and no remainder, and leaves x as it was.
C11_DivisionByZero ==
  (op \in DivisionCalls /\ y.n = 0) =>
    (err = "division_by_zero" /\ x = x0 /\ ret = Zero /\ ret2 = Zero)

C11_Witness ==
  op = "/=" /\ ~self /\ y.n = 0 /\ x0.n = 2 /\ x0.neg /\ err = "division_by_zero" /\ x = x0

\* the same integer, digit for digit
SameInt(a, b) ==
  a.n = b.n /\ a.neg = b.neg /\ \A i \in 0 .. (a.n - 1) : At(a, i) = At(b, i)

\* the largest operand size whose sum or difference the store can take
Fits(a, b) == (IF a.n >= b.n THEN a.n ELSE b.n) + 1 <= bi_max_digits

\* C12: x + y is the mathematical sum and x - y the mathematical difference,
\* returned well formed, so that x + y = y + x, x + 0 = x and x + (-x) = 0;
\* the call fails only when the room it reserves exceeds the maximum size.
C12_AddSubExact ==
  /\ op = "+" =>
       /\ Fits(x0, y) => err = "none"
       /\ err = "none" =>
            /\ Val(ret) = Val(x0) + Val(y)
            /\ WellFormed(ret)
            /\ SameInt(ret, add(Zero, y, x0, FALSE, FALSE, FALSE).v)
            /\ Val(add(Zero, ret, unary_minus(ret), FALSE, FALSE, FALSE).v) = 0
  /\ op = "-" =>
       /\ Fits(x0, y) => err = "none"
       /\ err = "none" => (Val(ret) = Val(x0) - Val(y) /\ WellFormed(ret))

C12_Witness ==
  /\ op = "+" /\ err = "none"
  /\ x0.neg /\ ~y.neg /\ x0.n = 2 /\ y.n = 2
  /\ At(x0, 1) = At(y, 1) /\ At(x0, 0) < At(y, 0)
  /\ ret.n = 1 /\ ~ret.neg

\* C13: x * y is the mathematical product, has at most x.size() + y.size()
\* digits, and is negative exactly when the signs differ and no operand is 0.
C13_MulExact ==
  op = "*" =>
    /\ (x0.n = 0 \/ y.n = 0 \/ x0.n + y.n <= bi_max_digits) => err = "none"
    /\ err = "none" =>
         /\ Val(ret) = Val(x0) * Val(y)
         /\ Canonical(ret)
         /\ ret.n <= x0.n + y.n
         /\ ret.neg <=> (x0.neg # y.neg /\ x0.n > 0 /\ y.n > 0)

C13_Witness ==
  /\ op = "*" /\ err = "none"
  /\ x0.n = 2 /\ y.n = 1 /\ ~x0.neg /\ y.neg
  /\ ret.n = 3 /\ ret.neg

\* the digits left_shift asks for before it trims
ShiftSize(v, s) == v.n + s \div bi_dwidth + (IF s % bi_dwidth # 0 THEN 1 ELSE 0)

LeftShifted == IF op = "<<" THEN ret ELSE x

LeftShiftExact ==
  /\ Val(LeftShifted) = Val(x0) * 2 ^ k
  /\ WellFormed(LeftShifted)
  /\ LeftShifted.neg = x0.neg

\* C14 (as stated): whenever x * 2^s fits in bi_max_digits digits, x << s and
\* x <<= s give exactly x * 2^s.
C14_LeftShiftFits ==
  (/\ op \in {"<<", "<<="} /\ WellFormed(x0) /\ err # "bad_alloc"
   /\ Len(DigitsOf(Abs(x0) * 2 ^ k)) <= bi_max_digits) =>
    (err = "none" /\ LeftShiftExact)

\* C14 (amended): x << s and x <<= s give exactly x * 2^s, with the sign of x
\* and 0 staying 0, whenever x is 0, s is 0 or the size reserved,
\* x.size() + s / bi_dwidth + (s % bi_dwidth ? 1 : 0), is at most bi_max_digits;
\* otherwise the call raises overflow_error.
C14_LeftShiftReserved ==
  (op \in {"<<", "<<="} /\ WellFormed(x0) /\ err # "bad_alloc") =>
    IF x0.n = 0 \/ k = 0 \/ ShiftSize(x0, k) <= bi_max_digits
    THEN err = "none" /\ LeftShiftExact
    ELSE err = "overflow_error"

C14_Witness ==
  /\ op = "<<=" /\ err = "none"
  /\ x0.neg /\ x0.n = 1 /\ k = 1 /\ x.n = 2 /\ Val(x) = 2 * Val(x0)

\* the compound forms that compute with a second operand
SelfCalls == {"+=", "-=", "*=", "/=", "%="}

\* with x itself as operand the call fails only for lack of room or memory
SelfAliasingRuns ==
  \/ err \in {"none", "bad_alloc"}
  \/ op \in {"/=", "%="} /\ x0.n = 0 /\ err = "division_by_zero"
  \/ op = "+=" /\ x0.n + 1 > bi_max_digits /\ err = "overflow_error"
  \/ op = "*=" /\ 2 * x0.n > bi_max_digits /\ err = "overflow_error"

\* C15: a compound operator applied to x with x itself as right operand gives
\* what the binary operator gives on the old value: x += x doubles x, x -= x
\* and x %= x give 0, x *= x squares x, x /= x gives 1 (x # 0).
C15_SelfAliasing ==
  (self /\ op \in SelfCalls) =>
    /\ SelfAliasingRuns
    /\ err = "none" =>
         /\ Canonical(x)
         /\ op = "+=" => Val(x) = 2 * Val(x0)
         /\ op = "-=" => (Val(x) = 0 /\ ~x.neg)
         /\ op = "*=" => Val(x) = Val(x0) * Val(x0)
         /\ op = "/=" => Val(x) = 1
         /\ op = "%=" => (Val(x) = 0 /\ ~x.neg)

C15_Witness ==
  /\ op = "*=" /\ self /\ err = "none"
  /\ x0.neg /\ x0.n = 1 /\ x.n = 2 /\ ~x.neg /\ Val(x) = Val(x0) * Val(x0)

DigitValue(ch) == CHOOSE i \in 0 .. 9 : DecimalDigits[i + 1] = ch

\* the integer a run of decimal digits denotes
RECURSIVE Decimal(_)
Decimal(s) ==
  IF s = << >> THEN 0
  ELSE 10 * Decimal(SubSeq(s, 1, Len(s) - 1)) + DigitValue(s[Len(s)])

Parsed == IF op = "=string" THEN x ELSE ret

\* s is blanks, the sign, the digit run [j, l) and something that is no digit
Denotes(s, j, l, sign) ==
  \E i \in 1 .. j :
    /\ j - i <= 1
    /\ Blanks(Between(s, 1, i))
    /\ Between(s, i, j) = sign
    /\ Digits(Between(s, j, l))
    /\ NoDigitFirst(Between(s, l, Len(s) + 1))

\* C16: a string that parses gives the integer its sign and digit run denote,
\* however the run splits into batches; leading zeros do not count and a run
\* of zeros gives 0 with sign +.  A well formed string is refused (Overflow)
\* only when its digit run is too long for bi_max_digits digits.
C16_ParsedValue ==
  (Parsing /\ str # NullPtr) =>
    \A j, l \in 1 .. Len(str) + 1 :
      /\ \A sign \in {<< >>, <<"+">>} :
           (Denotes(str, j, l, sign) /\ err = "none") =>
             (Val(Parsed) = Decimal(Between(str, j, l)) /\ WellFormed(Parsed))
      /\ (Denotes(str, j, l, <<"-">>) /\ err = "none") =>
           (Val(Parsed) = 0 - Decimal(Between(str, j, l)) /\ WellFormed(Parsed))
      /\ (\E sign \in {<< >>, <<"+">>, <<"-">>} : Denotes(str, j, l, sign)) =>
           /\ err \in {"none", "overflow_error"}
           /\ err = "overflow_error" => 10 ^ (l - j) > bi_base ^ bi_max_digits

\* 707 is parsed as the batch 70 and the shorter batch 7
C16_Witness ==
  /\ op = "bi_t(string)" /\ err = "none" /\ max_batch_size = 2
  /\ str = <<"7", "0", "7">> /\ Val(ret) = 707 /\ ret.n = 2

\* C17: parsing to_string(x) gives an integer equal to x, for x zero, positive
\* or negative; the parse is refused (Overflow) only when the digit run is too
\* long for bi_max_digits digits.
C17_RoundTrip ==
  op = "bi_t(to_string)" =>
    /\ err \in {"none", "overflow_error"}
    /\ err = "none" => SameInt(ret, x0)
    /\ err = "overflow_error" =>
         10 ^ (Len(str) - (IF x0.neg THEN 1 ELSE 0)) > bi_base ^ bi_max_digits

C17_Witness ==
  /\ op = "bi_t(to_string)" /\ err = "none" /\ max_batch_size = 2
  /\ x0.neg /\ x0.n = 2 /\ Len(str) = 5 /\ SameInt(ret, x0)

\* C18: ~(x & y) equals (~x) | (~y) and ~(x | y) equals (~x) & (~y).
C18_DeMorgan ==
  (op \in {"~AND", "~OR"} /\ err = "none") => SameInt(ret, ret2)

\* C19: each of ==, !=, <, <=, >, >= between x and a builtin integer b of a
\* signed or unsigned type, in either order, answers as the comparison of the
\* mathematical values does; nothing is thrown and x is not touched.
C19_CompareIntegral ==
  op = "cmp" =>
    /\ err = "none" /\ x = x0 /\ ret = Zero
    /\ outcome.eq = (Val(x0) = k) /\ outcome.ne = (Val(x0) # k)
    /\ outcome.lt = (Val(x0) < k) /\ outcome.le = (Val(x0) <= k)
    /\ outcome.gt = (Val(x0) > k) /\ outcome.ge = (Val(x0) >= k)
    /\ outcome.req = (k = Val(x0)) /\ outcome.rne = (k # Val(x0))
    /\ outcome.rlt = (k < Val(x0)) /\ outcome.rle = (k <= Val(x0))
    /\ outcome.rgt = (k > Val(x0)) /\ outcome.rge = (k >= Val(x0))

\* a negative two-digit x against the minimum of a signed type wider than a
\* digit, equal in the top digit
C19_Witness ==
  /\ op = "cmp" /\ outcome.T.signed /\ outcome.T.bits > bi_dwidth /\ k = TMin(outcome.T)
  /\ x0.neg /\ x0.n = 2 /\ At(x0, 1) = 2 /\ At(x0, 0) > 0
  /\ outcome.lt /\ outcome.rgt /\ ~outcome.ge

StepCalls == {"++x", "--x", "x++", "x--"}

\* the magnitude of x0 grows by one in ++ of a value >= 0 and -- of one < 0
StepGrows == (op \in {"++x", "x++"}) = ~x0.neg

\* C20: ++x leaves x_old + 1 and --x leaves x_old - 1, in canonical form with
\* 0 non-negative whatever digits are gained or lost, and x++ and x-- return
\* x_old besides; a call fails only for lack of memory or, with overflow_error,
\* when the magnitude is to grow and the top digit of x_old, the
\* bi_max_digits'th, is all ones; x is then as it was.
C20_IncrementDecrement ==
  (op \in StepCalls /\ WellFormed(x0)) =>
    IF err = "none"
    THEN /\ WellFormed(x)
         /\ Val(x) = Val(x0) + (IF op \in {"++x", "x++"} THEN 1 ELSE 0 - 1)
         /\ op \in {"x++", "x--"} => (WellFormed(ret) /\ SameInt(ret, x0))
    ELSE /\ SameInt(x, x0)
         /\ err \in {"overflow_error", "bad_alloc"}
         /\ err = "overflow_error" =>
              (StepGrows /\ x0.n = bi_max_digits /\ At(x0, x0.n - 1) = bi_dmax)

\* x-- on the base: x loses a digit and the old value is returned
C20_Witness ==
  /\ op = "x--" /\ err = "none"
  /\ Val(x0) = bi_base /\ x0.n = 2 /\ x.n = 1 /\ Val(x) = bi_dmax /\ Val(ret) = bi_base

\* C21: after bi_t(bi_t&&) from x the new object is what x was and x is 0
\* with no digits and no sign; after x = std::move(other) with other a
\* distinct object x is what other was and other is 0 in the same way; after
\* x = std::move(x) x is what it was.
C21_Move ==
  /\ op = "bi_t(bi_t&&)" =>
       (err = "none" /\ SameInt(ret, x0) /\ x.n = 0 /\ ~x.neg)
  /\ (op = "=&&" /\ ~self) =>
       (err = "none" /\ SameInt(x, y) /\ outcome.other.n = 0 /\ ~outcome.other.neg)
  /\ (op = "=&&" /\ self) =>
       (err = "none" /\ SameInt(x, x0) /\ outcome.other = x)

\* a negative two-digit other moved into an x that held something else
C21_Witness ==
  /\ op = "=&&" /\ ~self /\ y.neg /\ y.n = 2 /\ ~SameInt(x0, y)
  /\ SameInt(x, y) /\ outcome.other.n = 0

\* bit i of the magnitude of v
MagBit(v, i) == TwosBit(Abs(v), i) = 1

\* the bit indices a magnitude of bitcount_max bits has, and those set_bit and
\* test_bit are called with
BitIndices == 0 .. (bitcount_max + MaxShift)

\* C22: x.set_bit(i) sets bit i of the magnitude of x and leaves every other
\* bit and the sign as they were, whatever i is below bi_max_digits digits,
\* and x.test_bit(i) is true afterwards; the call fails, x unchanged, only
\* for lack of memory or when bit i lies beyond bi_max_digits digits.
\* test_bit(j) is bit j of the magnitude, false at and beyond bit_length(x).
C22_SetBit ==
  /\ op = "set_bit" =>
       IF err = "none"
       THEN /\ \A j \in BitIndices : MagBit(x, j) = (j = k \/ MagBit(x0, j))
            /\ Canonical(x) /\ x.neg = x0.neg
            /\ test_bit(x, k)
       ELSE /\ SameInt(x, x0)
            /\ err \in {"overflow_error", "bad_alloc"}
            /\ err = "overflow_error" => k \div bi_dwidth >= bi_max_digits
  /\ op = "test_bit" =>
       /\ err = "none" /\ x = x0
       /\ outcome.bit = MagBit(x0, k)
       /\ k >= bit_length(x0) => ~outcome.bit

\* a bit set two digits above the top digit of a negative x
C22_Witness ==
  /\ op = "set_bit" /\ err = "none"
  /\ x0.neg /\ x0.n = 1 /\ k \div bi_dwidth = 2
  /\ x.n = 3 /\ At(x, 1) = 0 /\ x.neg /\ test_bit(x, k)

\* the value of an integer of the C library
LibraryVal(a) == IF a.n < 0 THEN 0 - Mag(a.d, ABS(a.n)) ELSE Mag(a.d, ABS(a.n))

\* C23: bi_divide_qr leaves quotient = a / b, truncated towards zero, and
\* remainder = a % b, so that (a / b) * b + a % b = a, for every a and every
\* b other than 0, of either sign.
C23_DivideQr ==
  op = "bi_divide_qr" =>
    /\ LibraryVal(outcome.quotient) = TruncQuot(LibraryVal(outcome.a), LibraryVal(outcome.b))
    /\ LibraryVal(outcome.quotient) * LibraryVal(outcome.b) + LibraryVal(outcome.remainder)
         = LibraryVal(outcome.a)

\* the digits in use and the signed digit count are the same
SameLibraryInt(u, v) ==
  u.n = v.n /\ \A i \in 1 .. ABS(u.n) : i <= Len(u.d) /\ i <= Len(v.d) /\ u.d[i] = v.d[i]

\* C24: bi_mul(a, a, b) and bi_mul(b, a, b) leave in a and in b the digits
\* and the normalized signed digit count that bi_mul(c, a, b) leaves in a
\* distinct c, whatever memory that is neither a digit of an operand nor of
\* the product holds.
C24_MulInPlace ==
  op = "bi_mul" =>
    /\ SameLibraryInt(outcome.into_a, outcome.c)
    /\ SameLibraryInt(outcome.into_b, outcome.c)

\* C25: in Algorithm D, whenever the subtraction of step (4) goes negative,
\* the carry out of the divisor added back in step (6) cancels the borrow:
\* u_norm[j + n] is 0 afterwards, at every j, and the assertion holds.
C25_AddBackCancels ==
  (op = "div" /\ outcome.algo = "knuth") => outcome.carry_cancels

\* a division in which step (6) ran
C25_Witness ==
  /\ op = "div" /\ err = "none" /\ outcome.algo = "knuth"
  /\ outcome.add_back /\ outcome.carry_cancels
  /\ DivisionContract(Val(x0), Val(y), Val(ret), Val(ret2))

\* C30: in Algorithm D, at every j, q_hat after the correction loop is
\* smaller than the base, is the quotient digit of (u[j + n] ... u[j]) by v or
\* that digit plus one, and the body of the loop has run at most twice.
C30_QHatEstimate ==
  (op = "div" /\ outcome.algo = "knuth") => outcome.qhat_ok

\* a division in which the body of the correction loop ran
C30_Witness ==
  /\ op = "div" /\ err = "none" /\ outcome.algo = "knuth"
  /\ outcome.corrected /\ outcome.qhat_ok

\* t of mul (a, b) at the iteration (i, j), before it is stored in a ddigit:
\* target is what the rows below j left, k the carry of the digits below i
mul_t(a, b, i, j) ==
  At(a, i) * At(b, j)
  + At(mul_outer(fill_zero(resize(Zero, a.n + b.n), 0, a.n), a, [b EXCEPT !.n = j], 0),
       i + j)
  + At(mul_inner(mul_outer(fill_zero(resize(Zero, a.n + b.n), 0, a.n), a,
                           [b EXCEPT !.n = j], 0),
                 [a EXCEPT !.n = i], At(b, j), j, 0, 0),
       i + j)

\* t of imul1add1(m, kk) on v at the iteration i
imul1add1_t(v, m, kk, i) ==
  At(v, i) * m + imul1add1_loop([v EXCEPT !.n = i], 0, m, kk).k

\* C29: in mul and in imul1add1, at every iteration, t = a[i] * b[j] +
\* target[i + j] + k is at most B^2 - 1, so that it fits a ddigit and the
\* carry k = t div B is smaller than B.
C29_MulAddFits ==
  /\ (op \in {"*", "*="} /\ err = "none") =>
       \A i \in 0 .. x0.n - 1 : \A j \in 0 .. y.n - 1 :
         /\ mul_t(x0, y, i, j) <= bi_base * bi_base - 1
         /\ mul_t(x0, y, i, j) \div bi_base < bi_base
  /\ op = "imul1add1" =>
       \A i \in 0 .. x0.n - 1 :
         /\ imul1add1_t(x0, outcome.v, k, i) <= bi_base * bi_base - 1
         /\ imul1add1_t(x0, outcome.v, k, i) \div bi_base < bi_base

\* a product in which a t is more than the largest product of two digits
\* plus one digit: target[i + j] and k both count
C29_Witness ==
  /\ op = "*" /\ err = "none"
  /\ \E i \in 0 .. x0.n - 1 : \E j \in 0 .. y.n - 1 :
       mul_t(x0, y, i, j) > bi_dmax * bi_dmax + bi_dmax
  /\ Val(ret) = Val(x0) * Val(y)

\* C26: no result depends on what a store holds beyond the size of its
\* integer: a kernel run into a new store, whose cells were never written, and
\* run into a store that holds stale digits leaves the same exception, size,
\* sign and digits, whatever the stale digits are.
C26_NoStaleRead ==
  (op # "none" /\ op # "div") => outcome.new = outcome.used

\* an exclusive or into x, whose store held stale digits: resize made x one
\* digit longer, over a stale digit, and the result came out the same
C26_Witness ==
  /\ op = "XOR" /\ outcome.into = "self" /\ outcome.stale = bi_dmax
  /\ outcome.used.err = "none" /\ x0.n > 0 /\ x0.n >= y.n
  /\ outcome.used.n = x0.n /\ outcome.new = outcome.used

\* C27: every index a kernel reads or writes is below the capacity of the
\* store it indexes: run into a store of just the capacity the kernel
\* reserves, it leaves what it leaves in a store with room to spare, and in
\* that store the cells from that capacity on are untouched; in the division
\* the indices of q, r, u_norm and v_norm are below their capacities.
C27_IndicesInCapacity ==
  /\ (op # "none" /\ op # "div") =>
       /\ outcome.used = outcome.new
       /\ \A i \in outcome.capacity + 1 .. Len(outcome.store) :
            outcome.store[i] = outcome.stale
  /\ (op = "div" /\ err = "none") => outcome.in_capacity

\* an addition into x itself whose carry is written at index size, the last
\* cell of the capacity reserved, with stale cells after it
C27_Witness ==
  /\ op = "add" /\ outcome.into = "self" /\ outcome.used.err = "none"
  /\ outcome.used.n = x0.n + 1 /\ outcome.capacity = x0.n + 1
  /\ outcome.capacity < Len(outcome.store) /\ outcome.stale # 0
  /\ outcome.used = outcome.new

\* the iterations made so far are within what the sizes of the operands allow:
\* e below the width of a digit, at most two corrections of q_hat, at most
\* m - n + 1 quotient digits, no more divisions by 10 than decimal_length
\* estimates, no more batches than the digits of the string need
StepsBounded ==
  /\ op = "div_algo_knuth" =>
       /\ outcome.e <= bi_dwidth - 1
       /\ outcome.pc # "normalize" => outcome.steps <= x0.n - y.n + 1
       /\ outcome.pc = "q_hat" => outcome.est.runs <= 2
  /\ op = "to_string" => outcome.steps <= decimal_length(x0)
  /\ op = "init_string" =>
       outcome.steps <= div_ceil(scan(str).it - scan(str).start_digit, max_batch_size)

\* C28: the loops of div_algo_knuth (on e, on q_hat, on j), of to_string and of
\* init_string each make a number of iterations bounded by the sizes of the
\* operands, and a function that has been entered returns or throws.
C28_Terminates == [](StepsBounded) /\ ((op # "none") ~> (op = "none"))

\* a division at its end: the divisor was shifted, two quotient digits were
\* made and an estimate was corrected
C28_Witness ==
  /\ op = "div_algo_knuth" /\ outcome.pc = "unnormalize"
  /\ outcome.e > 0 /\ outcome.steps = 2 /\ outcome.g.corrected

====
